---- MODULE Spec2Model ----
(***************************************************************************)
(* Model of net/mptcp/mptcp_sched.c: the default MPTCP scheduler           *)
(* (availability predicates, shortest-RTT subflow selector, receive-buffer *)
(* optimisation, segment chooser).                                         *)
(*                                                                         *)
(* A meta connection owns a list of subflows (iterated in list order by    *)
(* mptcp_for_each_sub) and three queues of which the scheduler only peeks  *)
(* the head.  Fields written by code outside this file (congestion         *)
(* control, handshake, queues) are changed by environment actions, a       *)
(* bounded number of times; the functions of the file are operators, each  *)
(* applied by one action that records what the call returned.              *)
(***************************************************************************)
EXTENDS Integers, Sequences, FiniteSets, TLC

----------------------------------------------------------------------------
(* Bounds of the model *)

MaxSub == 2          \* subflows per meta connection
MaxEnv == 1          \* environment events per behaviour
MaxNow == 2          \* ticks of tcp_jiffies32 per behaviour
TickUsec == 2        \* microseconds per tick of tcp_jiffies32
WordBits == 8        \* width of the u32 arithmetic, scaled down from 32

\* Values the environment gives to the fields it owns
RttVals == {1, 5, 7}         \* srtt_us is 8 times the round-trip time
CwndVals == {1, 2, 5}        \* snd_cwnd
SsthreshVals == {2, 4}       \* snd_ssthresh
InFlightVals == {0, 1, 2}    \* tcp_packets_in_flight
MssVals == {1, 2}            \* tcp_current_mss
LenVals == {1, 2, 3}         \* skb->len
QueuedVals == {0, 1}         \* write_seq - snd_nxt
WndVals == {0, 1, 2, 3}      \* tcp_wnd_end - snd_una
GsoVals == {0, 1, 2}         \* sk_gso_max_segs

----------------------------------------------------------------------------
(* u32 arithmetic *)

U32Mod == 2 ^ WordBits
U32Max == U32Mod - 1

u32(x) == x % U32Mod

\* (int)x and (s32)x of a u32
s32(x) == IF u32(x) >= U32Mod \div 2 THEN u32(x) - U32Mod ELSE u32(x)

\* before(a, b), after(a, b) of include/net/tcp.h as used at lines 84 and 93
before(a, b) == s32(a - b) < 0
after(a, b) == before(b, a)

\* F(v), with v computed once
Bind(v, F(_)) == CHOOSE r \in {F(x) : x \in {v}} : TRUE

Min(a, b) == IF a < b THEN a ELSE b
Max(a, b) == IF a > b THEN a ELSE b

\* mptcp_pi_to_flag() masks are sets of path indices
PathIndexes == 1..MaxSub

\* A segment (struct sk_buff with its TCP_SKB_CB fields); NoSkb is NULL
NoSkb ==
    [present |-> FALSE, seq |-> 0, len |-> 0, path_mask |-> {},
     data_fin |-> FALSE]

\* A segment of fresh data that no subflow has carried yet
FreshSkb ==
    [present |-> TRUE, seq |-> 0, len |-> 1, path_mask |-> {},
     data_fin |-> FALSE]

----------------------------------------------------------------------------
(* Availability predicates *)

mptcp_is_def_unavailable(tp) ==
    \/ ~tp.can_send
    \/ tp.pre_established
    \/ tp.pf

\* mptcp_is_temp_unavailable without the test of what is queued already
mptcp_is_temp_unavailable_NoQueued(tp, skb, zero_wnd_test) ==
    LET in_flight == tp.packets_in_flight
        mss_now == tp.mss_now
    IN  \/ /\ tp.icsk_ca_state = "Loss"
           /\ \/ ~tp.is_reno
              \/ tp.snd_una # tp.high_seq
        \/ /\ ~tp.fully_established
           /\ skb.present
           /\ tp.second_packet
           /\ tp.last_end_data_seq # skb.seq
        \/ in_flight >= tp.snd_cwnd
        \/ /\ zero_wnd_test
           /\ ~before(tp.write_seq, tp.wnd_end)
        \/ /\ skb.present
           /\ zero_wnd_test
           /\ after(u32(tp.write_seq + Min(skb.len, mss_now)), tp.wnd_end)

mptcp_is_temp_unavailable(tp, skb, zero_wnd_test) ==
    LET in_flight == tp.packets_in_flight
        mss_now == tp.mss_now
        space == u32((tp.snd_cwnd - in_flight) * mss_now)
    IN  \/ /\ tp.icsk_ca_state = "Loss"
           /\ \/ ~tp.is_reno
              \/ tp.snd_una # tp.high_seq
        \/ /\ ~tp.fully_established
           /\ skb.present
           /\ tp.second_packet
           /\ tp.last_end_data_seq # skb.seq
        \/ in_flight >= tp.snd_cwnd
        \/ u32(tp.write_seq - tp.snd_nxt) >= space
        \/ /\ zero_wnd_test
           /\ ~before(tp.write_seq, tp.wnd_end)
        \/ /\ skb.present
           /\ zero_wnd_test
           /\ after(u32(tp.write_seq + Min(skb.len, mss_now)), tp.wnd_end)

mptcp_is_available(tp, skb, zero_wnd_test) ==
    /\ ~mptcp_is_def_unavailable(tp)
    /\ ~mptcp_is_temp_unavailable(tp, skb, zero_wnd_test)

mptcp_dont_reinject_skb(tp, skb) ==
    skb.present /\ tp.path_index \in skb.path_mask

subflow_is_backup(tp) == tp.rcv_low_prio \/ tp.low_prio

subflow_is_active(tp) == ~tp.rcv_low_prio /\ ~tp.low_prio

Selector(selector, tp) ==
    IF selector = "active" THEN subflow_is_active(tp) ELSE subflow_is_backup(tp)

----------------------------------------------------------------------------
(* Subflow selector *)

NoSk == 0            \* a NULL struct sock *; subflows are named by list position

PickInit ==
    [bestsk |-> NoSk, min_srtt |-> U32Max,
     found_unused |-> FALSE, found_unused_una |-> FALSE]

\* PickStep without the test of mptcp_is_def_unavailable
PickStepNoDef(st, i, tp, skb, selector, zero_wnd_test) ==
    IF ~Selector(selector, tp) THEN st
    ELSE
      LET unused == ~mptcp_dont_reinject_skb(tp, skb) IN
      IF ~unused /\ st.found_unused THEN st
      ELSE IF mptcp_is_temp_unavailable(tp, skb, zero_wnd_test)
        THEN [st EXCEPT !.found_unused_una = @ \/ unused]
      ELSE
        LET st1 == IF unused /\ ~st.found_unused
                     THEN [st EXCEPT !.min_srtt = U32Max, !.bestsk = NoSk,
                                     !.found_unused = TRUE]
                     ELSE st
        IN  IF tp.srtt_us < st1.min_srtt
              THEN [st1 EXCEPT !.min_srtt = tp.srtt_us, !.bestsk = i]
              ELSE st1

\* PickStep that keeps a used subflow as best when an unused one turns up
PickStepNoReset(st, i, tp, skb, selector, zero_wnd_test) ==
    IF ~Selector(selector, tp) THEN st
    ELSE
      LET unused == ~mptcp_dont_reinject_skb(tp, skb) IN
      IF ~unused /\ st.found_unused THEN st
      ELSE IF mptcp_is_def_unavailable(tp) THEN st
      ELSE IF mptcp_is_temp_unavailable(tp, skb, zero_wnd_test)
        THEN [st EXCEPT !.found_unused_una = @ \/ unused]
      ELSE
        LET st1 == [st EXCEPT !.found_unused = @ \/ unused]
        IN  IF tp.srtt_us < st1.min_srtt
              THEN [st1 EXCEPT !.min_srtt = tp.srtt_us, !.bestsk = i]
              ELSE st1

\* PickStep comparing with <= : the last of several equal candidates wins
PickStepLastWins(st, i, tp, skb, selector, zero_wnd_test) ==
    IF ~Selector(selector, tp) THEN st
    ELSE
      LET unused == ~mptcp_dont_reinject_skb(tp, skb) IN
      IF ~unused /\ st.found_unused THEN st
      ELSE IF mptcp_is_def_unavailable(tp) THEN st
      ELSE IF mptcp_is_temp_unavailable(tp, skb, zero_wnd_test)
        THEN [st EXCEPT !.found_unused_una = @ \/ unused]
      ELSE
        LET st1 == IF unused /\ ~st.found_unused
                     THEN [st EXCEPT !.min_srtt = U32Max, !.bestsk = NoSk,
                                     !.found_unused = TRUE]
                     ELSE st
        IN  IF tp.srtt_us <= st1.min_srtt
              THEN [st1 EXCEPT !.min_srtt = tp.srtt_us, !.bestsk = i]
              ELSE st1

\* One iteration of the mptcp_for_each_sub loop of get_subflow_from_selectors
PickStep(st, i, tp, skb, selector, zero_wnd_test) ==
    IF ~Selector(selector, tp) THEN st
    ELSE
      LET unused == ~mptcp_dont_reinject_skb(tp, skb) IN
      IF ~unused /\ st.found_unused THEN st
      ELSE IF mptcp_is_def_unavailable(tp) THEN st
      ELSE IF mptcp_is_temp_unavailable(tp, skb, zero_wnd_test)
        THEN [st EXCEPT !.found_unused_una = @ \/ unused]
      ELSE
        LET st1 == IF unused /\ ~st.found_unused
                     THEN [st EXCEPT !.min_srtt = U32Max, !.bestsk = NoSk,
                                     !.found_unused = TRUE]
                     ELSE st
        IN  IF tp.srtt_us < st1.min_srtt
              THEN [st1 EXCEPT !.min_srtt = tp.srtt_us, !.bestsk = i]
              ELSE st1

RECURSIVE PickLoop(_, _, _, _, _, _)
PickLoop(ss, skb, selector, zero_wnd_test, i, st) ==
    IF i > Len(ss) THEN st
    ELSE PickLoop(ss, skb, selector, zero_wnd_test, i + 1,
                  PickStep(st, i, ss[i], skb, selector, zero_wnd_test))

PickForce(st) ==
    IF st.bestsk # NoSk THEN st.found_unused ELSE st.found_unused_una

get_subflow_from_selectors(ss, skb, selector, zero_wnd_test) ==
    LET st == PickLoop(ss, skb, selector, zero_wnd_test, 1, PickInit)
    IN  [bestsk |-> st.bestsk, force |-> PickForce(st)]

\* The data-fin walk of get_available_subflow: first subflow in list order
\* on the data-fin path that is available, NoSk when there is none
DfinSubflow(ss, mpcb, skb, zero_wnd_test) ==
    LET hits == {i \in 1..Len(ss) :
                    /\ ss[i].path_index = mpcb.dfin_path_index
                    /\ mptcp_is_available(ss[i], skb, zero_wnd_test)}
    IN  IF hits = {} THEN NoSk
        ELSE CHOOSE i \in hits : \A j \in hits : i <= j

\* DfinCase of a scheduler without the data-fin shortcut
DfinCaseNever(mpcb, skb) == FALSE

DfinCase(mpcb, skb) ==
    mpcb.rcv_shutdown /\ skb.present /\ skb.data_fin

\* SelectFrom with a looping flag that is set only by the second restart
RECURSIVE SelectFromTwice(_, _, _, _, _, _)
SelectFromTwice(ss, skb, zero_wnd_test, looping, na, nb) ==
    LET a == get_subflow_from_selectors(ss, skb, "active", zero_wnd_test) IN
    IF a.force
      THEN [sk |-> a.bestsk, skb |-> skb, nactive |-> na + 1, nbackup |-> nb,
            shortcut |-> FALSE]
      ELSE
        LET b == get_subflow_from_selectors(ss, skb, "backup", zero_wnd_test) IN
        IF ~b.force /\ skb.present
          THEN
            LET cleared == [skb EXCEPT !.path_mask = {}] IN
            IF ~looping
              THEN SelectFromTwice(ss, cleared, zero_wnd_test, na >= 1,
                                   na + 1, nb + 1)
              ELSE [sk |-> b.bestsk, skb |-> cleared, nactive |-> na + 1,
                    nbackup |-> nb + 1, shortcut |-> FALSE]
          ELSE [sk |-> b.bestsk, skb |-> skb, nactive |-> na + 1,
                nbackup |-> nb + 1, shortcut |-> FALSE]

\* SelectFrom of a scheduler that is not aware of the backup subflows
SelectFromActiveOnly(ss, skb, zero_wnd_test, looping, na, nb) ==
    [sk |-> get_subflow_from_selectors(ss, skb, "active", zero_wnd_test).bestsk,
     skb |-> skb, nactive |-> na + 1, nbackup |-> nb, shortcut |-> FALSE]

\* SelectFrom restarting without "clean the path mask"
RECURSIVE SelectFromKeepMask(_, _, _, _, _, _)
SelectFromKeepMask(ss, skb, zero_wnd_test, looping, na, nb) ==
    LET a == get_subflow_from_selectors(ss, skb, "active", zero_wnd_test) IN
    IF a.force
      THEN [sk |-> a.bestsk, skb |-> skb, nactive |-> na + 1, nbackup |-> nb,
            shortcut |-> FALSE]
      ELSE
        LET b == get_subflow_from_selectors(ss, skb, "backup", zero_wnd_test) IN
        IF ~b.force /\ skb.present /\ ~looping
          THEN SelectFromKeepMask(ss, skb, zero_wnd_test, TRUE, na + 1, nb + 1)
          ELSE [sk |-> b.bestsk, skb |-> skb, nactive |-> na + 1,
                nbackup |-> nb + 1, shortcut |-> FALSE]

\* The code from the restart label on.  Returns the chosen subflow, the skb
\* (its path_mask possibly cleared) and how many picks of each class ran.
RECURSIVE SelectFrom(_, _, _, _, _, _)
SelectFrom(ss, skb, zero_wnd_test, looping, na, nb) ==
    LET a == get_subflow_from_selectors(ss, skb, "active", zero_wnd_test) IN
    IF a.force
      THEN [sk |-> a.bestsk, skb |-> skb, nactive |-> na + 1, nbackup |-> nb,
            shortcut |-> FALSE]
      ELSE
        LET b == get_subflow_from_selectors(ss, skb, "backup", zero_wnd_test) IN
        IF ~b.force /\ skb.present
          THEN
            LET cleared == [skb EXCEPT !.path_mask = {}] IN
            IF ~looping
              THEN SelectFrom(ss, cleared, zero_wnd_test, TRUE, na + 1, nb + 1)
              ELSE [sk |-> b.bestsk, skb |-> cleared, nactive |-> na + 1,
                    nbackup |-> nb + 1, shortcut |-> FALSE]
          ELSE [sk |-> b.bestsk, skb |-> skb, nactive |-> na + 1,
                nbackup |-> nb + 1, shortcut |-> FALSE]

get_available_subflow(ss, mpcb, skb, zero_wnd_test) ==
    LET d == IF DfinCase(mpcb, skb)
               THEN DfinSubflow(ss, mpcb, skb, zero_wnd_test)
               ELSE NoSk
    IN  IF d # NoSk
          THEN [sk |-> d, skb |-> skb, nactive |-> 0, nbackup |-> 0,
                shortcut |-> TRUE]
          ELSE SelectFrom(ss, skb, zero_wnd_test, FALSE, 0, 0)

----------------------------------------------------------------------------
(* Receive-buffer optimisation *)

\* usecs_to_jiffies() of the kernel: microseconds to clock ticks, rounded up
usecs_to_jiffies(u) == (u + TickUsec - 1) \div TickUsec

\* RateLimited of a scheduler that penalises on every call
RateLimitedNever(tp, jiffies) == FALSE

\* "Only penalize again after an RTT has elapsed"
RateLimited(tp, jiffies) ==
    u32(jiffies - tp.last_rbuf_opti) < usecs_to_jiffies(tp.srtt_us \div 8)

\* Does subflow j carry skb_head next to the sending subflow i?
Carrier(ss, i, skb_head, j) ==
    j # i /\ ss[j].path_index \in skb_head.path_mask

\* PenalStep halving without the floors of 1 and 2
PenalStepNoFloor(ss, i, skb_head, j, jiffies) ==
    IF /\ Carrier(ss, i, skb_head, j)
       /\ ss[i].srtt_us < ss[j].srtt_us
       /\ ss[j].icsk_ca_state = "Open"
      THEN [ss EXCEPT ![j].snd_cwnd = @ \div 2,
                      ![j].snd_ssthresh = IF ss[j].snd_cwnd >= @
                                            THEN @ \div 2 ELSE @,
                      ![i].last_rbuf_opti = jiffies]
      ELSE ss

\* One iteration of the loop "Half the cwnd of the slow flows"
PenalStep(ss, i, skb_head, j, jiffies) ==
    IF /\ Carrier(ss, i, skb_head, j)
       /\ ss[i].srtt_us < ss[j].srtt_us
       /\ ss[j].icsk_ca_state = "Open"
      THEN [ss EXCEPT ![j].snd_cwnd = Max(@ \div 2, 1),
                      ![j].snd_ssthresh = IF ss[j].snd_cwnd >= @
                                            THEN Max(@ \div 2, 2) ELSE @,
                      ![i].last_rbuf_opti = jiffies]
      ELSE ss

RECURSIVE PenalLoop(_, _, _, _, _)
PenalLoop(ss, i, skb_head, j, jiffies) ==
    IF j > Len(ss) THEN ss
    ELSE PenalLoop(PenalStep(ss, i, skb_head, j, jiffies), i, skb_head, j + 1,
                   jiffies)

\* RetransLoop without the rule of the small cwnd
RECURSIVE RetransLoopNoSmallCwnd(_, _, _, _, _)
RetransLoopNoSmallCwnd(ss, i, skb_head, j, do_retrans) ==
    IF j > Len(ss) THEN do_retrans
    ELSE IF Carrier(ss, i, skb_head, j)
      THEN IF u32(4 * ss[i].srtt_us) >= ss[j].srtt_us THEN FALSE
           ELSE RetransLoopNoSmallCwnd(ss, i, skb_head, j + 1, TRUE)
      ELSE RetransLoopNoSmallCwnd(ss, i, skb_head, j + 1, do_retrans)

\* The loop after the retrans label: the value of do_retrans when it ends
RECURSIVE RetransLoop(_, _, _, _, _)
RetransLoop(ss, i, skb_head, j, do_retrans) ==
    IF j > Len(ss) THEN do_retrans
    ELSE IF Carrier(ss, i, skb_head, j)
      THEN IF ss[j].snd_cwnd <= 4 THEN TRUE
           ELSE IF u32(4 * ss[i].srtt_us) >= ss[j].srtt_us THEN FALSE
           ELSE RetransLoop(ss, i, skb_head, j + 1, TRUE)
      ELSE RetransLoop(ss, i, skb_head, j + 1, do_retrans)

\* The rest of the function from the retrans label on, on subflows ss1
RetransDecision(ss1, skb_head, i) ==
    [subs |-> ss1,
     retrans |-> /\ ss1[i].path_index \notin skb_head.path_mask
                 /\ RetransLoop(ss1, i, skb_head, 1, FALSE)
                 /\ mptcp_is_available(ss1[i], skb_head, FALSE)]

\* mptcp_rcv_buf_optimization(sk, penal) on subflow i; memory_free is
\* sk_stream_memory_free(meta_sk).  Returns the subflows after the call and
\* whether the head of the retransmit queue is returned.
mptcp_rcv_buf_optimization(ss, skb_head, i, penal, memory_free, jiffies) ==
    IF ~skb_head.present THEN [subs |-> ss, retrans |-> FALSE]
    ELSE IF ~penal /\ memory_free THEN RetransDecision(ss, skb_head, i)
    ELSE IF RateLimited(ss[i], jiffies) THEN RetransDecision(ss, skb_head, i)
    ELSE Bind(PenalLoop(ss, i, skb_head, 1, jiffies),
              LAMBDA ss1 : RetransDecision(ss1, skb_head, i))

----------------------------------------------------------------------------
(* Segment chooser *)

Fallback(mpcb) == mpcb.infinite_mapping_snd \/ mpcb.send_infinite_mapping

\* A result of __mptcp_next_segment or mptcp_next_segment: the segment (src
\* names its queue, "none" for NULL), *reinject, *subsk, *limit, the
\* subflows and queue heads after the call, the subflow handed to
\* mptcp_rcv_buf_optimization (optsk) and the calls made.
SegRet(src, reinject, sk, limit, ss, qs, optsk, calls) ==
    [src |-> src, reinject |-> reinject, sk |-> sk, limit |-> limit,
     subs |-> ss, queues |-> qs, optsk |-> optsk, calls |-> calls]

\* SndbufLimited leaving *reinject at 0 when the optimiser returns a segment
SndbufLimitedNoTag(ss, qs, in, g) ==
    IF g.sk = NoSk
      THEN SegRet("none", 0, NoSk, 0, ss, qs, NoSk, {"get_subflow"})
      ELSE Bind(mptcp_rcv_buf_optimization(ss, qs["rtx"], g.sk, FALSE,
                                           in.memory_free, in.jiffies),
                LAMBDA o :
                  SegRet(IF o.retrans THEN "rtx" ELSE "none", 0,
                         NoSk, 0, o.subs, qs, g.sk,
                         {"get_subflow", "rcv_buf_opt"}))

\* __mptcp_next_segment when both queues are empty and the meta is send
\* buffer limited; g is what get_subflow(meta_sk, NULL, false) returned
SndbufLimited(ss, qs, in, g) ==
    IF g.sk = NoSk
      THEN SegRet("none", 0, NoSk, 0, ss, qs, NoSk, {"get_subflow"})
      ELSE Bind(mptcp_rcv_buf_optimization(ss, qs["rtx"], g.sk, FALSE,
                                           in.memory_free, in.jiffies),
                LAMBDA o :
                  SegRet(IF o.retrans THEN "rtx" ELSE "none",
                         IF o.retrans THEN -1 ELSE 0,
                         NoSk, 0, o.subs, qs, g.sk,
                         {"get_subflow", "rcv_buf_opt"}))

\* inner_next_segment without the test of the fallback mode
inner_next_segment_NoFallback(ss, mpcb, qs, in) ==
    IF qs["reinject"].present
      THEN SegRet("reinject", 1, NoSk, 0, ss, qs, NoSk, {})
    ELSE IF qs["write"].present
      THEN SegRet("write", 0, NoSk, 0, ss, qs, NoSk, {})
    ELSE IF in.sndbuf_limited
      THEN Bind(get_available_subflow(ss, mpcb, NoSkb, FALSE),
                LAMBDA g : SndbufLimited(ss, qs, in, g))
    ELSE SegRet("none", 0, NoSk, 0, ss, qs, NoSk, {})

\* in is the environment as the call finds it: sndbuf_limited (the socket
\* has SOCK_NOSPACE set and wspace < min_wspace), memory_free, snd_wnd_ok
\* (tcp_snd_wnd_test of the meta), cwnd_quota (tcp_cwnd_test), jiffies
inner_next_segment(ss, mpcb, qs, in) ==
    IF Fallback(mpcb)
      THEN SegRet(IF qs["write"].present THEN "write" ELSE "none", 0, NoSk, 0,
                  ss, qs, NoSk, {})
    ELSE IF qs["reinject"].present
      THEN SegRet("reinject", 1, NoSk, 0, ss, qs, NoSk, {})
    ELSE IF qs["write"].present
      THEN SegRet("write", 0, NoSk, 0, ss, qs, NoSk, {})
    ELSE IF in.sndbuf_limited
      THEN Bind(get_available_subflow(ss, mpcb, NoSkb, FALSE),
                LAMBDA g : SndbufLimited(ss, qs, in, g))
    ELSE SegRet("none", 0, NoSk, 0, ss, qs, NoSk, {})

\* The size computation at the end of mptcp_next_segment, for segment skb
\* on subflow subtp: [ok |-> FALSE] when it returns NULL
SegLimit(subtp, skb, cwnd_quota) ==
    LET mss_now == subtp.mss_now
        gso_max_segs == IF subtp.sk_gso_max_segs = 0 THEN 1
                        ELSE subtp.sk_gso_max_segs
        max_segs == Min(cwnd_quota, gso_max_segs)
        max_len0 == Min(u32(mss_now * max_segs), skb.len)
        in_flight_space ==
            u32((subtp.snd_cwnd - subtp.packets_in_flight) * mss_now)
        remaining_in_flight_space ==
            s32(s32(in_flight_space) - u32(subtp.write_seq - subtp.snd_nxt))
        max_len1 == IF remaining_in_flight_space <= 0 THEN max_len0
                    ELSE Min(max_len0, remaining_in_flight_space)
        window == u32(subtp.wnd_end - subtp.write_seq)
    IN  IF skb.len <= mss_now THEN [ok |-> TRUE, limit |-> 0, warn |-> FALSE]
        ELSE IF max_segs = 0 THEN [ok |-> FALSE, limit |-> 0, warn |-> FALSE]
        ELSE [ok |-> TRUE, limit |-> Min(max_len1, window),
              warn |-> remaining_in_flight_space <= 0]

\* mptcp_next_segment from the size computation on: segment qs[src] on
\* subflow sk
SizeStep(ss, qs, in, src, reinject, sk, optsk, calls) ==
    Bind(SegLimit(ss[sk], qs[src], in.cwnd_quota),
         LAMBDA l :
           IF l.ok
             THEN SegRet(src, reinject, sk, l.limit, ss, qs, optsk,
                         calls \cup (IF qs[src].len > ss[sk].mss_now
                                       THEN {"limit"} ELSE {})
                               \cup (IF l.warn THEN {"warn"} ELSE {}))
             ELSE SegRet("none", reinject, sk, 0, ss, qs, optsk,
                         calls \cup {"limit"}))

\* mptcp_next_segment after get_subflow returned subflow sk for the segment
\* of __mptcp_next_segment's result a; qs1 are the queue heads by then
WindowStep(a, qs1, in, sk) ==
    IF a.reinject = 0 /\ ~in.snd_wnd_ok
      THEN Bind(mptcp_rcv_buf_optimization(a.subs, qs1["rtx"], sk, TRUE,
                                           in.memory_free, in.jiffies),
                LAMBDA o :
                  IF o.retrans
                    THEN SizeStep(o.subs, qs1, in, "rtx", -1, sk, sk,
                                  a.calls \cup {"get_subflow_skb",
                                                "snd_wnd_test", "rcv_buf_opt"})
                    ELSE SegRet("none", a.reinject, sk, 0, o.subs, qs1, sk,
                                a.calls \cup {"get_subflow_skb",
                                              "snd_wnd_test", "rcv_buf_opt"}))
      ELSE SizeStep(a.subs, qs1, in, a.src, a.reinject, sk, a.optsk,
                    a.calls \cup {"get_subflow_skb"}
                            \cup (IF a.reinject = 0 THEN {"snd_wnd_test"}
                                  ELSE {}))

\* mptcp_next_segment after __mptcp_next_segment returned a
SubflowStep(a, mpcb, in) ==
    IF a.src = "none" THEN a
    ELSE Bind(get_available_subflow(a.subs, mpcb, a.queues[a.src], FALSE),
              LAMBDA g :
                IF g.sk = NoSk
                  THEN SegRet("none", a.reinject, NoSk, 0, a.subs,
                              [a.queues EXCEPT ![a.src] = g.skb], a.optsk,
                              a.calls \cup {"get_subflow_skb"})
                  ELSE Bind([a.queues EXCEPT ![a.src] = g.skb],
                            LAMBDA qs1 : WindowStep(a, qs1, in, g.sk)))

mptcp_next_segment(ss, mpcb, qs, in) ==
    Bind(inner_next_segment(ss, mpcb, qs, in),
         LAMBDA a : SubflowStep(a, mpcb, in))

----------------------------------------------------------------------------
(* State *)

VARIABLES
    subs,     \* the subflows of the meta connection, in mptcp_for_each_sub order
    mpcb,     \* meta-level flags read by the scheduler
    queues,   \* head of the reinject, write and retransmit queue of the meta
    now,      \* tcp_jiffies32
    nenv,     \* environment events so far
    res,      \* what the last call returned; op = "none" after an event
    sched_list,       \* mptcp_sched_list: the next pointer of each node
    sched_list_lock,  \* the caller that holds mptcp_sched_list_lock
    pc,       \* where each caller of the registry stands
    loc,      \* the local variables of each caller
    refcnt,   \* references held on the owner of each scheduler
    modstate, \* state of the module of each scheduler
    conn,     \* scheduler name and sched_ops of each meta connection
    ncalls    \* calls of the registry so far

connvars == <<subs, mpcb, queues, now, nenv, res>>

regvars == <<sched_list, sched_list_lock, pc, loc, refcnt, modstate, conn,
             ncalls>>

vars == <<subs, mpcb, queues, now, nenv, res, sched_list, sched_list_lock,
          pc, loc, refcnt, modstate, conn, ncalls>>

----------------------------------------------------------------------------
(* State of the scheduler registry *)

MaxProc == 2      \* concurrent callers of the registry
MaxCalls == 2     \* calls begun in one behaviour
MaxConn == 2      \* meta connections

Procs == 1..MaxProc
Conns == 1..MaxConn

\* The mptcp_sched_ops objects: mptcp_sched_default, which is built in, and
\* those of scheduler modules. Two modules offer the same name and one
\* module's object lacks next_segment.
SchedOps ==
    <<[name |-> "default", get_subflow |-> TRUE, next_segment |-> TRUE,
       builtin |-> TRUE],
      [name |-> "roundrobin", get_subflow |-> TRUE, next_segment |-> TRUE,
       builtin |-> FALSE],
      [name |-> "redundant", get_subflow |-> TRUE, next_segment |-> TRUE,
       builtin |-> FALSE],
      [name |-> "roundrobin", get_subflow |-> TRUE, next_segment |-> TRUE,
       builtin |-> FALSE],
      [name |-> "blest", get_subflow |-> TRUE, next_segment |-> FALSE,
       builtin |-> FALSE]>>

Ops == 1..Len(SchedOps)

Names == {SchedOps[e].name : e \in Ops}

NoOps == 0        \* NULL
ListHead == 0     \* &mptcp_sched_list
NoProc == 0

\* The entries reached from node n along the next pointers nx
RECURSIVE ListFrom(_, _, _)
ListFrom(nx, n, fuel) ==
    IF n = ListHead \/ fuel = 0 THEN <<>>
    ELSE <<n>> \o ListFrom(nx, nx[n], fuel - 1)

\* mptcp_sched_list from its head on
Entries(nx) == ListFrom(nx, nx[ListHead], Len(SchedOps) + 1)

\* The next pointers of the list that holds the entries of l in that order
Linked(l) ==
    [n \in {ListHead} \cup Ops |->
       IF Len(l) = 0 THEN ListHead
       ELSE IF n = ListHead THEN l[1]
       ELSE IF \E i \in 1..(Len(l) - 1) : l[i] = n
         THEN l[(CHOOSE i \in 1..(Len(l) - 1) : l[i] = n) + 1]
       ELSE ListHead]

\* mptcp_sched_find by a caller that holds mptcp_sched_list_lock
mptcp_sched_find(nx, name) ==
    LET l == Entries(nx)
        hits == {i \in 1..Len(l) : SchedOps[l[i]].name = name}
    IN  IF hits = {} THEN NoOps
        ELSE l[CHOOSE i \in hits : \A j \in hits : i <= j]

\* The node whose next pointer leads to e; an entry that is not on the list
\* is not unlinked from it
PrevOf(nx, e) ==
    LET l == Entries(nx)
    IN  IF \E i \in 2..Len(l) : l[i] = e
          THEN l[(CHOOSE i \in 2..Len(l) : l[i] = e) - 1]
          ELSE IF Len(l) > 0 /\ l[1] = e THEN ListHead ELSE e

list_add_tail_rcu(nx, e) ==
    LET l == Entries(nx)
        last == IF Len(l) = 0 THEN ListHead ELSE l[Len(l)]
    IN  [[nx EXCEPT ![last] = e] EXCEPT ![e] = ListHead]

\* list_del_rcu leaves the next pointer of the entry as it is
list_del_rcu(nx, e) == [nx EXCEPT ![PrevOf(nx, e)] = nx[e]]

\* list_move is __list_del_entry followed by list_add
list_del_entry(nx, e) == [nx EXCEPT ![PrevOf(nx, e)] = nx[e]]

list_add(nx, e) == [nx EXCEPT ![e] = nx[ListHead], ![ListHead] = e]

\* A connection that no scheduler was set or initialised for
NoConn == [name |-> "", setsockopt |-> FALSE, sched_ops |-> NoOps,
           state |-> "closed"]

\* The local variables of a caller between two calls
IdleLoc ==
    [op |-> "none", e |-> NoOps, name |-> "",
     pos |-> ListHead, sched |-> NoOps, retried |-> FALSE, ret |-> "",
     rcu |-> FALSE, waiting |-> {}, active |-> {}, nguards |-> 0,
     kept |-> {}, seen |-> {}, pre |-> <<>>, post |-> <<>>, c |-> 0]

\* The registry after boot, with mptcp_sched_default registered, and no
\* caller in it
RegIdle ==
    /\ sched_list = Linked(<<1>>)
    /\ sched_list_lock = NoProc
    /\ pc = [p \in Procs |-> "idle"]
    /\ loc = [p \in Procs |-> IdleLoc]
    /\ refcnt = [e \in Ops |-> 0]
    /\ modstate = [e \in Ops |-> IF e = 1 THEN "live" ELSE "gone"]
    /\ conn = [c \in Conns |-> NoConn]
    /\ ncalls = 0

----------------------------------------------------------------------------
(* State of the meta connection *)

QueueNames == {"reinject", "write", "rtx"}

CaStates == {"Open", "Recovery", "Loss"}

\* srtt_us of a newly established subflow; distinct on the first paths
BaseRtt(pi) == IF pi = 1 THEN 7 ELSE IF pi = 2 THEN 1 ELSE 5

\* A subflow right after it was established on path pi at time t:
\* one packet in flight, room for one more, nothing queued.
BaseSubflow(pi, t) ==
    [path_index |-> pi,
     can_send |-> TRUE, pre_established |-> FALSE, pf |-> FALSE,
     icsk_ca_state |-> "Open", is_reno |-> FALSE,
     snd_una |-> 0, high_seq |-> 0, snd_nxt |-> 1, write_seq |-> 1,
     wnd_end |-> 3,
     fully_established |-> TRUE, second_packet |-> FALSE,
     last_end_data_seq |-> 0,
     packets_in_flight |-> 1, snd_cwnd |-> 2, snd_ssthresh |-> 4,
     mss_now |-> 1, sk_gso_max_segs |-> 0,
     srtt_us |-> 8 * BaseRtt(pi),
     low_prio |-> (pi >= 3), rcv_low_prio |-> FALSE,
     last_rbuf_opti |-> t]

\* defsched_init: the init hook run on a subflow's scheduler scratch area
defsched_init(tp, jiffies) == [tp EXCEPT !.last_rbuf_opti = jiffies]

\* New subflows are linked at the head of the connection list
RECURSIVE BaseSubs(_)
BaseSubs(n) ==
    IF n = 0 THEN <<>>
    ELSE <<defsched_init(BaseSubflow(n, 0), 0)>> \o BaseSubs(n - 1)

NoRes ==
    [op |-> "none", sk |-> NoSk, q |-> "none", arg |-> NoSkb,
     zero_wnd_test |-> FALSE, nactive |-> 0, nbackup |-> 0,
     shortcut |-> FALSE, reinject |-> 0, limit |-> 0, src |-> "none",
     penal |-> FALSE, optsk |-> NoSk, pre |-> <<>>, preq |-> <<>>, t |-> 0,
     quota |-> 0, info |-> {}]

\* A connection of n subflows sending fresh data, with a segment sent on
\* path 1 still unacknowledged; dfin = 0, or the connection is closing:
\* the peer's data-fin arrived on path dfin and ours is next to send.
InitConn(n, dfin) ==
    /\ subs = BaseSubs(n)
    /\ mpcb = [rcv_shutdown |-> (dfin # 0), dfin_path_index |-> dfin,
               infinite_mapping_snd |-> FALSE, send_infinite_mapping |-> FALSE]
    /\ queues = [q \in QueueNames |->
                   IF q = "write" THEN [FreshSkb EXCEPT !.data_fin = (dfin # 0)]
                   ELSE IF q = "rtx" THEN [FreshSkb EXCEPT !.path_mask = {1}]
                   ELSE NoSkb]
    /\ now = 0
    /\ nenv = 0
    /\ res = NoRes
    /\ RegIdle

Init == \E n \in 1..MaxSub, dfin \in 0..MaxSub : dfin <= n /\ InitConn(n, dfin)

----------------------------------------------------------------------------
(* Environment: events of the code around the scheduler *)

\* The subflow records one event away from tp, by kind of event
Near(tp, kind) ==
    CASE kind = "state" ->
           {[tp EXCEPT !.can_send = b] : b \in BOOLEAN}
      [] kind = "handshake" ->
           {[tp EXCEPT !.pre_established = b] : b \in BOOLEAN}
           \cup {[tp EXCEPT !.fully_established = FALSE, !.second_packet = s,
                            !.last_end_data_seq = e] :
                    s \in BOOLEAN, e \in 0..1}
      [] kind = "pf" ->
           {[tp EXCEPT !.pf = b] : b \in BOOLEAN}
      [] kind = "ca" ->
           {[tp EXCEPT !.icsk_ca_state = "Recovery", !.high_seq = tp.snd_nxt]}
           \cup {[tp EXCEPT !.icsk_ca_state = "Loss", !.is_reno = r,
                            !.high_seq = h] :
                    r \in BOOLEAN, h \in {tp.snd_una, tp.snd_nxt}}
      [] kind = "cwnd" ->
           {[tp EXCEPT !.snd_cwnd = c] : c \in CwndVals}
      [] kind = "ssthresh" ->
           {[tp EXCEPT !.snd_ssthresh = c] : c \in SsthreshVals}
      [] kind = "flight" ->
           {[tp EXCEPT !.packets_in_flight = f] : f \in InFlightVals}
      [] kind = "queue" ->
           {[tp EXCEPT !.write_seq = u32(tp.snd_nxt + n)] : n \in QueuedVals}
      [] kind = "wnd" ->
           {[tp EXCEPT !.wnd_end = u32(tp.snd_una + w)] : w \in WndVals}
      [] kind = "wrap" ->
           \* the same subflow later in its sequence space, about to wrap
           {[tp EXCEPT !.snd_una = u32(@ + d), !.high_seq = u32(@ + d),
                       !.snd_nxt = u32(@ + d), !.write_seq = u32(@ + d),
                       !.wnd_end = u32(@ + d)] : d \in {U32Mod - 2}}
      [] kind = "mss" ->
           {[tp EXCEPT !.mss_now = m] : m \in MssVals}
      [] kind = "gso" ->
           {[tp EXCEPT !.sk_gso_max_segs = g] : g \in GsoVals}
      [] kind = "rtt" ->
           {[tp EXCEPT !.srtt_us = 8 * r] : r \in RttVals}
      [] kind = "prio" ->
           {[tp EXCEPT !.low_prio = l, !.rcv_low_prio = r] :
                l \in BOOLEAN, r \in BOOLEAN}

SubflowEvent(kinds) ==
    /\ nenv < MaxEnv
    /\ \E i \in 1..Len(subs), kind \in kinds :
         \E tp \in Near(subs[i], kind) \ {subs[i]} :
            subs' = [subs EXCEPT ![i] = tp]
    /\ nenv' = nenv + 1
    /\ res' = NoRes
    /\ UNCHANGED <<mpcb, queues, now>>
    /\ UNCHANGED regvars

\* The queue heads one event away from skb
NearSkb(skb) ==
    IF ~skb.present THEN {FreshSkb}
    ELSE {NoSkb}
         \cup {[skb EXCEPT !.path_mask = m] :
                  m \in SUBSET {subs[i].path_index : i \in 1..Len(subs)}}
         \cup {[skb EXCEPT !.len = l] : l \in LenVals}
         \cup {[skb EXCEPT !.seq = e] : e \in 0..1}
         \cup {[skb EXCEPT !.data_fin = b] : b \in BOOLEAN}

QueueEvent(qs) ==
    /\ nenv < MaxEnv
    /\ \E q \in qs :
         \E skb \in NearSkb(queues[q]) \ {queues[q]} :
            queues' = [queues EXCEPT ![q] = skb]
    /\ nenv' = nenv + 1
    /\ res' = NoRes
    /\ UNCHANGED <<subs, mpcb, now>>
    /\ UNCHANGED regvars

\* The meta socket is shut down for receiving after a data-fin arrived on
\* the path dfin_path_index
Shutdown ==
    /\ nenv < MaxEnv
    /\ ~mpcb.rcv_shutdown
    /\ \E i \in 1..Len(subs) :
         mpcb' = [mpcb EXCEPT !.rcv_shutdown = TRUE,
                              !.dfin_path_index = subs[i].path_index]
    /\ nenv' = nenv + 1
    /\ res' = NoRes
    /\ UNCHANGED <<subs, queues, now>>
    /\ UNCHANGED regvars

----------------------------------------------------------------------------
(* get_available_subflow, called on a queue head or without a segment *)

SkbOf(q) == IF q = "none" THEN NoSkb ELSE queues[q]

GetSubflow ==
    \E q \in QueueNames \cup {"none"}, z \in BOOLEAN :
      LET skb == SkbOf(q)
          r == get_available_subflow(subs, mpcb, skb, z)
      IN  /\ q # "none" => skb.present
          /\ res' = [NoRes EXCEPT !.op = "get_subflow", !.sk = r.sk, !.q = q,
                                  !.arg = skb, !.zero_wnd_test = z,
                                  !.nactive = r.nactive, !.nbackup = r.nbackup,
                                  !.shortcut = r.shortcut]
          /\ queues' = IF q = "none" THEN queues
                       ELSE [queues EXCEPT ![q] = r.skb]
          /\ UNCHANGED <<subs, mpcb, now, nenv>>
          /\ UNCHANGED regvars

SelKinds ==
    {"state", "handshake", "pf", "ca", "cwnd", "flight", "queue", "wnd",
     "wrap", "mss", "rtt", "prio"}

SelEvent == SubflowEvent(SelKinds)
SelQueueEvent == QueueEvent({"write"})

NextSel ==
    \/ SelEvent
    \/ SelQueueEvent
    \/ Shutdown
    \/ GetSubflow

SpecSel == Init /\ [][NextSel]_vars

----------------------------------------------------------------------------
(* mptcp_rcv_buf_optimization on a subflow of the connection *)

\* tcp_jiffies32 advances
Tick ==
    /\ now < MaxNow
    /\ now' = now + 1
    /\ res' = NoRes
    /\ UNCHANGED <<subs, mpcb, queues, nenv>>
    /\ UNCHANGED regvars

\* A subflow is established on a new path and linked at the head of the
\* connection list; the scheduler's init hook runs on it
Join ==
    /\ nenv < MaxEnv
    /\ Len(subs) < MaxSub
    /\ subs' = <<defsched_init(BaseSubflow(Len(subs) + 1, 0), now)>> \o subs
    /\ nenv' = nenv + 1
    /\ res' = NoRes
    /\ UNCHANGED <<mpcb, queues, now>>
    /\ UNCHANGED regvars

RcvBufOpt ==
    \E i \in 1..Len(subs), penal \in BOOLEAN, memory_free \in BOOLEAN :
      \E r \in {mptcp_rcv_buf_optimization(subs, queues["rtx"], i, penal,
                                            memory_free, now)} :
          /\ subs' = r.subs
          /\ res' = [NoRes EXCEPT !.op = "rcv_buf_opt", !.sk = i,
                                  !.optsk = i, !.penal = penal,
                                  !.src = IF r.retrans THEN "rtx" ELSE "none",
                                  !.arg = queues["rtx"],
                                  !.pre = subs, !.preq = queues, !.t = now,
                                  !.info = IF memory_free THEN {"memory_free"}
                                           ELSE {}]
          /\ UNCHANGED <<mpcb, queues, now, nenv>>
          /\ UNCHANGED regvars

OptKinds == {"rtt", "cwnd", "ssthresh", "ca", "flight", "state"}

OptEvent == SubflowEvent(OptKinds)
OptQueueEvent == QueueEvent({"rtx"})

NextOpt ==
    \/ OptEvent
    \/ OptQueueEvent
    \/ Tick
    \/ Join
    \/ RcvBufOpt

\* A connection that is not closing
InitOpt == \E n \in 1..MaxSub : InitConn(n, 0)

SpecOpt == InitOpt /\ [][NextOpt]_vars

----------------------------------------------------------------------------
(* mptcp_next_segment *)

\* The connection falls back to regular TCP
FallbackEvent ==
    /\ nenv < MaxEnv
    /\ ~Fallback(mpcb)
    /\ \/ mpcb' = [mpcb EXCEPT !.infinite_mapping_snd = TRUE]
       \/ mpcb' = [mpcb EXCEPT !.send_infinite_mapping = TRUE]
    /\ nenv' = nenv + 1
    /\ res' = NoRes
    /\ UNCHANGED <<subs, queues, now>>
    /\ UNCHANGED regvars

CwndQuotas == {0, 1, 2}      \* results of tcp_cwnd_test

NextSegment ==
    \E sndbuf_limited \in BOOLEAN, memory_free \in BOOLEAN,
       snd_wnd_ok \in BOOLEAN, cwnd_quota \in CwndQuotas :
      \E r \in {mptcp_next_segment(subs, mpcb, queues,
                     [sndbuf_limited |-> sndbuf_limited,
                      memory_free |-> memory_free, snd_wnd_ok |-> snd_wnd_ok,
                      cwnd_quota |-> cwnd_quota, jiffies |-> now])} :
          /\ subs' = r.subs
          /\ queues' = r.queues
          /\ res' = [NoRes EXCEPT !.op = "next_segment", !.sk = r.sk,
                                  !.src = r.src, !.reinject = r.reinject,
                                  !.limit = r.limit, !.optsk = r.optsk,
                                  !.arg = IF r.src = "none" THEN NoSkb
                                          ELSE r.queues[r.src],
                                  !.pre = subs, !.preq = queues, !.t = now,
                                  !.quota = IF "limit" \in r.calls
                                              THEN cwnd_quota ELSE 0,
                                  !.info = r.calls]
          /\ UNCHANGED <<mpcb, now, nenv>>
          /\ UNCHANGED regvars

\* Specification of the choice of the segment
InitSeg ==
    /\ \E n \in 1..MaxSub : subs = BaseSubs(n)
    /\ \E fb \in BOOLEAN :
         mpcb = [rcv_shutdown |-> FALSE, dfin_path_index |-> 0,
                 infinite_mapping_snd |-> fb, send_infinite_mapping |-> FALSE]
    /\ \E rq \in BOOLEAN, wq \in BOOLEAN :
         queues = [q \in QueueNames |->
                     IF q = "write" THEN (IF wq THEN FreshSkb ELSE NoSkb)
                     ELSE IF q = "rtx" THEN [FreshSkb EXCEPT !.path_mask = {1}]
                     ELSE IF rq THEN FreshSkb ELSE NoSkb]
    /\ now = MaxNow     \* the subflows were established at time 0
    /\ nenv = 0
    /\ res = NoRes
    /\ RegIdle

SegKinds == {"rtt", "cwnd", "flight", "state", "prio", "mss", "wnd"}

SegEvent == SubflowEvent(SegKinds)
SegQueueEvent == QueueEvent(QueueNames)

NextSeg ==
    \/ SegEvent
    \/ SegQueueEvent
    \/ FallbackEvent
    \/ NextSegment

SpecSeg == InitSeg /\ [][NextSeg]_vars

\* Specification of the size computation
LimKinds == {"cwnd", "flight", "queue", "wnd", "wrap", "mss", "gso"}

LimEvent == SubflowEvent(LimKinds)
LimQueueEvent == QueueEvent({"write"})

NextLim ==
    \/ LimEvent
    \/ LimQueueEvent
    \/ NextSegment

InitLim ==
    /\ \E n \in 1..MaxSub : subs = BaseSubs(n)
    /\ mpcb = [rcv_shutdown |-> FALSE, dfin_path_index |-> 0,
               infinite_mapping_snd |-> FALSE, send_infinite_mapping |-> FALSE]
    /\ \E l \in LenVals, rq \in BOOLEAN :
         queues = [q \in QueueNames |->
                     IF q = "write" THEN [FreshSkb EXCEPT !.len = l]
                     ELSE IF q = "rtx"
                       THEN [FreshSkb EXCEPT !.path_mask = {1}, !.len = l]
                     ELSE IF rq THEN [FreshSkb EXCEPT !.len = l] ELSE NoSkb]
    /\ now = 0
    /\ nenv = 0
    /\ res = NoRes
    /\ RegIdle

SpecLim == InitLim /\ [][NextLim]_vars

----------------------------------------------------------------------------
(* One pick of get_subflow_from_selectors, over one class *)

Pick ==
    \E q \in QueueNames \cup {"none"}, z \in BOOLEAN,
       selector \in {"active", "backup"} :
      LET skb == SkbOf(q)
          r == get_subflow_from_selectors(subs, skb, selector, z)
      IN  /\ q # "none" => skb.present
          /\ res' = [NoRes EXCEPT !.op = "pick", !.sk = r.bestsk, !.q = q,
                                  !.arg = skb, !.zero_wnd_test = z,
                                  !.info = {selector}
                                           \cup (IF r.force THEN {"force"}
                                                 ELSE {})]
          /\ UNCHANGED <<subs, mpcb, queues, now, nenv>>
          /\ UNCHANGED regvars

NextPick ==
    \/ SelEvent
    \/ SelQueueEvent
    \/ Pick

SpecPick == InitOpt /\ [][NextPick]_vars

----------------------------------------------------------------------------
(* The retransmission decision of mptcp_rcv_buf_optimization *)

\* A sender and up to MaxSub other subflows, any of which may carry the head
\* of the retransmit queue, with small or large windows and short or long
\* round-trip times; the subflows were established at time 0
InitRetrans ==
    /\ \E n \in 2..(MaxSub + 1) :
         \E cw \in [1..n -> {2, 5}], rtt \in [1..n -> {1, 7}],
            mask \in SUBSET (1..n) :
            /\ subs = [i \in 1..n |->
                         [BaseSubs(n)[i] EXCEPT !.snd_cwnd = cw[i],
                                                !.srtt_us = 8 * rtt[i]]]
            /\ queues = [q \in QueueNames |->
                           IF q = "rtx"
                             THEN [FreshSkb EXCEPT !.path_mask = mask]
                             ELSE FreshSkb]
    /\ mpcb = [rcv_shutdown |-> FALSE, dfin_path_index |-> 0,
               infinite_mapping_snd |-> FALSE, send_infinite_mapping |-> FALSE]
    /\ now = MaxNow
    /\ nenv = 0
    /\ res = NoRes
    /\ RegIdle

NextRetrans == RcvBufOpt

SpecRetrans == InitRetrans /\ [][NextRetrans]_vars

----------------------------------------------------------------------------
(* get_available_subflow over active and backup subflows *)

\* How busy a subflow is: free, its cwnd full, or potentially failed
Load(tp, l) ==
    CASE l = "free" -> tp
      [] l = "busy" -> [tp EXCEPT !.packets_in_flight = tp.snd_cwnd]
      [] l = "pf" -> [tp EXCEPT !.pf = TRUE]

\* A connection of up to MaxSub + 1 subflows, each active or backup and
\* free, busy or failed, with a segment K at the write head that some of
\* them already carried; dfin = 1 when the connection is closing on path 1
\* and K is its data-fin
InitBackup ==
    /\ \E n \in 2..(MaxSub + 1), dfin \in 0..1 :
         \E prio \in [1..n -> BOOLEAN], load \in [1..n -> {"free", "busy", "pf"}],
            mask \in SUBSET (1..n) :
            /\ subs = [i \in 1..n |->
                         Load([BaseSubs(n)[i] EXCEPT !.low_prio = prio[i]],
                              load[i])]
            /\ mpcb = [rcv_shutdown |-> (dfin # 0), dfin_path_index |-> dfin,
                       infinite_mapping_snd |-> FALSE,
                       send_infinite_mapping |-> FALSE]
            /\ queues = [q \in QueueNames |->
                           IF q = "write"
                             THEN [FreshSkb EXCEPT !.path_mask = mask,
                                                   !.data_fin = (dfin # 0)]
                             ELSE NoSkb]
    /\ now = 0
    /\ nenv = 0
    /\ res = NoRes
    /\ RegIdle

NextBackup == GetSubflow

SpecBackup == InitBackup /\ [][NextBackup]_vars

----------------------------------------------------------------------------
(* mptcp_next_segment handing back the head of the retransmit queue *)

\* Any connection whose retransmit queue holds a segment that some subflows
\* have carried; a data-fin in that queue went out on the path that
\* dfin_path_index names
InitCarrier ==
    /\ \E n \in 2..(MaxSub + 1), dfin \in 0..1, wq \in BOOLEAN :
         \E prio \in [1..n -> BOOLEAN], load \in [1..n -> {"free", "busy"}],
            mask \in SUBSET (1..n) :
            /\ dfin # 0 => dfin \in mask
            /\ subs = [i \in 1..n |->
                         Load([BaseSubs(n)[i] EXCEPT !.low_prio = prio[i]],
                              load[i])]
            /\ mpcb = [rcv_shutdown |-> (dfin # 0), dfin_path_index |-> dfin,
                       infinite_mapping_snd |-> FALSE,
                       send_infinite_mapping |-> FALSE]
            /\ queues = [q \in QueueNames |->
                           IF q = "rtx"
                             THEN [FreshSkb EXCEPT !.path_mask = mask,
                                                   !.data_fin = (dfin # 0)]
                             ELSE IF q = "write" /\ wq
                               THEN [FreshSkb EXCEPT !.seq = 1]
                               ELSE NoSkb]
    /\ now = MaxNow
    /\ nenv = 0
    /\ res = NoRes
    /\ RegIdle

NextCarrier == NextSegment

SpecCarrier == InitCarrier /\ [][NextCarrier]_vars

----------------------------------------------------------------------------
(* The operations of the scheduler registry, one step per action *)

\* The scheduler objects that are registered: on the list, or taken off it
\* for the time of a list_move
Registered ==
    {e \in Ops : \/ \E i \in 1..Len(Entries(sched_list)) :
                       Entries(sched_list)[i] = e
                  \/ \E q \in Procs : pc[q] = "sd_add" /\ loc[q].sched = e}

\* Caller p begins a call
Begin(p) ==
    /\ pc[p] \in {"idle", "ret"}
    /\ ncalls < MaxCalls
    /\ ncalls' = ncalls + 1

\* spin_lock(&mptcp_sched_list_lock) goes on when no caller holds the lock
LockAvailableAlways(l) == TRUE

LockAvailable(l) == l = NoProc

\* What the lookups in progress are told of a registration: entry e was
\* registered at some time during the lookup
NoteAdd(l, e) ==
    [q \in Procs |-> IF pc[q] = "rd_find"
                       THEN [l[q] EXCEPT !.seen = @ \cup {e}]
                       ELSE l[q]]

\* What they are told of a removal: entry e was not registered during the
\* whole lookup
NoteDel(l, e) ==
    [q \in Procs |-> IF pc[q] = "rd_find"
                       THEN [l[q] EXCEPT !.kept = @ \ {e}]
                       ELSE l[q]]

\* rcu_read_unlock of caller p: grace periods stop waiting for p
rcu_read_unlock(l, p) ==
    [q \in Procs |-> IF q = p THEN [l[q] EXCEPT !.rcu = FALSE]
                     ELSE [l[q] EXCEPT !.waiting = @ \ {p},
                                       !.active = @ \ {p}]]

\* try_module_get: fails on a module that is going
try_module_get(e) == SchedOps[e].builtin \/ modstate[e] = "live"

\* The module of scheduler e is being loaded or removed: its init or exit
\* handler is in the registry
InInitOrExit(e) ==
    \E q \in Procs : /\ pc[q] \notin {"idle", "ret"}
                     /\ loc[q].op \in {"register", "unregister"}
                     /\ loc[q].e = e

\* mptcp_register_scheduler up to the test of the two functions; a module
\* registers its scheduler when it is loaded
Register(p, E) ==
    \E e \in E :
      /\ Begin(p)
      /\ ~InInitOrExit(e)
      /\ modstate' = [modstate EXCEPT ![e] = "live"]
      /\ LET invalid == ~SchedOps[e].get_subflow \/ ~SchedOps[e].next_segment
         IN  /\ loc' = [loc EXCEPT ![p] =
                          [IdleLoc EXCEPT !.op = "register", !.e = e,
                                          !.name = SchedOps[e].name,
                                          !.ret = IF invalid THEN "EINVAL"
                                                  ELSE ""]]
             /\ pc' = [pc EXCEPT ![p] = IF invalid THEN "ret" ELSE "reg_lock"]
      /\ UNCHANGED <<sched_list, sched_list_lock, refcnt, conn>>
      /\ UNCHANGED connvars

RegLock(p) ==
    /\ pc[p] = "reg_lock"
    /\ LockAvailable(sched_list_lock)
    /\ sched_list_lock' = p
    /\ pc' = [pc EXCEPT ![p] = "reg_find"]
    /\ UNCHANGED <<sched_list, loc, refcnt, modstate, conn, ncalls>>
    /\ UNCHANGED connvars

RegFind(p) ==
    /\ pc[p] = "reg_find"
    /\ loc' = [loc EXCEPT ![p].sched = mptcp_sched_find(sched_list, loc[p].name),
                          ![p].pre = Entries(sched_list)]
    /\ pc' = [pc EXCEPT ![p] = "reg_add"]
    /\ UNCHANGED <<sched_list, sched_list_lock, refcnt, modstate, conn, ncalls>>
    /\ UNCHANGED connvars

\* The rest of mptcp_register_scheduler
RegAdd(p) ==
    /\ pc[p] = "reg_add"
    /\ IF loc[p].sched # NoOps
         THEN /\ loc' = [loc EXCEPT ![p].ret = "EEXIST",
                                    ![p].post = Entries(sched_list)]
              /\ UNCHANGED sched_list
         ELSE /\ sched_list' = list_add_tail_rcu(sched_list, loc[p].e)
              /\ loc' = [NoteAdd(loc, loc[p].e) EXCEPT
                           ![p].ret = "OK", ![p].post = Entries(sched_list')]
    /\ sched_list_lock' = NoProc
    /\ pc' = [pc EXCEPT ![p] = "ret"]
    /\ UNCHANGED <<refcnt, modstate, conn, ncalls>>
    /\ UNCHANGED connvars

\* A module that nothing holds a reference on is removed: it is going and
\* its exit handler calls mptcp_unregister_scheduler
Unregister(p, E) ==
    \E e \in E \cap Registered :
      /\ Begin(p)
      /\ ~InInitOrExit(e)
      /\ ~SchedOps[e].builtin
      /\ refcnt[e] = 0
      /\ modstate' = [modstate EXCEPT ![e] = "going"]
      /\ loc' = [loc EXCEPT ![p] = [IdleLoc EXCEPT !.op = "unregister",
                                                   !.e = e,
                                                   !.name = SchedOps[e].name]]
      /\ pc' = [pc EXCEPT ![p] = "unreg_lock"]
      /\ UNCHANGED <<sched_list, sched_list_lock, refcnt, conn>>
      /\ UNCHANGED connvars

\* spin_lock, list_del_rcu, spin_unlock
UnregDel(p) ==
    /\ pc[p] = "unreg_lock"
    /\ LockAvailable(sched_list_lock)
    /\ sched_list' = list_del_rcu(sched_list, loc[p].e)
    /\ loc' = [NoteDel(loc, loc[p].e) EXCEPT
                 ![p].active = {q \in Procs \ {p} : loc[q].rcu},
                 ![p].nguards = Cardinality({q \in Procs \ {p} : loc[q].rcu})]
    /\ pc' = [pc EXCEPT ![p] = "unreg_sync"]
    /\ UNCHANGED <<sched_list_lock, refcnt, modstate, conn, ncalls>>
    /\ UNCHANGED connvars

\* mptcp_unregister_scheduler returning without synchronize_rcu
UnregSyncNone(p) ==
    /\ pc[p] = "unreg_sync"
    /\ pc' = [pc EXCEPT ![p] = "unreg_wait"]
    /\ UNCHANGED <<sched_list, sched_list_lock, loc, refcnt, modstate, conn,
                   ncalls>>
    /\ UNCHANGED connvars

\* synchronize_rcu begins: it waits for the callers that are in a read-side
\* critical section now
UnregSync(p) ==
    /\ pc[p] = "unreg_sync"
    /\ loc' = [loc EXCEPT ![p].waiting = {q \in Procs \ {p} : loc[q].rcu}]
    /\ pc' = [pc EXCEPT ![p] = "unreg_wait"]
    /\ UNCHANGED <<sched_list, sched_list_lock, refcnt, modstate, conn, ncalls>>
    /\ UNCHANGED connvars

\* synchronize_rcu and mptcp_unregister_scheduler return; the module is
\* removed
UnregReturn(p) ==
    /\ pc[p] = "unreg_wait"
    /\ loc[p].waiting = {}
    /\ modstate' = [modstate EXCEPT ![loc[p].e] = "gone"]
    /\ loc' = [loc EXCEPT ![p].ret = "OK"]
    /\ pc' = [pc EXCEPT ![p] = "ret"]
    /\ UNCHANGED <<sched_list, sched_list_lock, refcnt, conn, ncalls>>
    /\ UNCHANGED connvars

\* mptcp_get_default_scheduler
GetDefault(p) ==
    /\ Begin(p)
    /\ loc' = [loc EXCEPT ![p] =
                 [IdleLoc EXCEPT !.op = "get_default",
                                 !.pre = Entries(sched_list),
                                 !.sched = sched_list[ListHead],
                                 !.ret = IF sched_list[ListHead] = ListHead
                                           THEN "BUG"
                                           ELSE SchedOps[sched_list[ListHead]].name]]
    /\ pc' = [pc EXCEPT ![p] = "ret"]
    /\ UNCHANGED <<sched_list, sched_list_lock, refcnt, modstate, conn>>
    /\ UNCHANGED connvars

\* mptcp_set_default_scheduler is called
SetDefault(p, N) ==
    \E name \in N :
      /\ Begin(p)
      /\ loc' = [loc EXCEPT ![p] = [IdleLoc EXCEPT !.op = "set_default",
                                                   !.name = name]]
      /\ pc' = [pc EXCEPT ![p] = "sd_lock"]
      /\ UNCHANGED <<sched_list, sched_list_lock, refcnt, modstate, conn>>
      /\ UNCHANGED connvars

\* spin_lock and mptcp_sched_find, the first time and after request_module
SdFind(p) ==
    /\ pc[p] \in {"sd_lock", "sd_relock"}
    /\ LockAvailable(sched_list_lock)
    /\ \E sched \in {mptcp_sched_find(sched_list, loc[p].name)},
          capable \in BOOLEAN :
         IF sched = NoOps /\ capable /\ pc[p] = "sd_lock"
           THEN /\ pc' = [pc EXCEPT ![p] = "sd_request"]
                /\ UNCHANGED <<sched_list_lock, loc>>
           ELSE IF sched = NoOps
             THEN /\ loc' = [loc EXCEPT ![p].ret = "ENOENT",
                                        ![p].pre = Entries(sched_list),
                                        ![p].post = Entries(sched_list)]
                  /\ pc' = [pc EXCEPT ![p] = "ret"]
                  /\ UNCHANGED sched_list_lock
             ELSE /\ loc' = [loc EXCEPT ![p].sched = sched,
                                        ![p].pre = Entries(sched_list)]
                  /\ sched_list_lock' = p
                  /\ pc' = [pc EXCEPT ![p] = "sd_del"]
    /\ UNCHANGED <<sched_list, refcnt, modstate, conn, ncalls>>
    /\ UNCHANGED connvars

\* request_module returns; a module it loaded has run its registration
SdRequest(p) ==
    /\ pc[p] = "sd_request"
    /\ pc' = [pc EXCEPT ![p] = "sd_relock"]
    /\ UNCHANGED <<sched_list, sched_list_lock, loc, refcnt, modstate, conn,
                   ncalls>>
    /\ UNCHANGED connvars

\* list_move, first half: the entry is taken off the list
SdDel(p) ==
    /\ pc[p] = "sd_del"
    /\ sched_list' = list_del_entry(sched_list, loc[p].sched)
    /\ pc' = [pc EXCEPT ![p] = "sd_add"]
    /\ UNCHANGED <<sched_list_lock, loc, refcnt, modstate, conn, ncalls>>
    /\ UNCHANGED connvars

\* list_move adding the entry at the tail
SdAddTail(p) ==
    /\ pc[p] = "sd_add"
    /\ sched_list' = list_add_tail_rcu(sched_list, loc[p].sched)
    /\ sched_list_lock' = NoProc
    /\ loc' = [loc EXCEPT ![p].ret = "OK", ![p].post = Entries(sched_list')]
    /\ pc' = [pc EXCEPT ![p] = "ret"]
    /\ UNCHANGED <<refcnt, modstate, conn, ncalls>>
    /\ UNCHANGED connvars

\* list_move, second half: the entry is added behind the head; spin_unlock
SdAdd(p) ==
    /\ pc[p] = "sd_add"
    /\ sched_list' = list_add(sched_list, loc[p].sched)
    /\ sched_list_lock' = NoProc
    /\ loc' = [loc EXCEPT ![p].ret = "OK", ![p].post = Entries(sched_list')]
    /\ pc' = [pc EXCEPT ![p] = "ret"]
    /\ UNCHANGED <<refcnt, modstate, conn, ncalls>>
    /\ UNCHANGED connvars

\* The caller enters a read-side critical section and begins
\* mptcp_sched_find for name
BeginFind(l, p, name) ==
    [l EXCEPT ![p].rcu = TRUE, ![p].pos = ListHead, ![p].sched = NoOps,
              ![p].name = name, ![p].kept = Registered,
              ![p].seen = Registered]

\* mptcp_set_scheduler is called for a socket that is not connected yet
SetScheduler(p, C, N) ==
    \E c \in C, name \in N :
      /\ Begin(p)
      /\ conn[c].state = "closed"
      /\ conn' = [conn EXCEPT ![c].state = "setting"]
      /\ loc' = BeginFind([loc EXCEPT ![p] = [IdleLoc EXCEPT
                                                !.op = "set_scheduler",
                                                !.c = c]],
                          p, name)
      /\ pc' = [pc EXCEPT ![p] = "rd_find"]
      /\ UNCHANGED <<sched_list, sched_list_lock, refcnt, modstate>>
      /\ UNCHANGED connvars

\* mptcp_init_scheduler is called for a new meta connection
InitScheduler(p, C) ==
    \E c \in C :
      /\ Begin(p)
      /\ conn[c].state = "closed"
      /\ conn' = [conn EXCEPT ![c].state = "binding"]
      /\ LET l == [loc EXCEPT ![p] = [IdleLoc EXCEPT !.op = "init_scheduler",
                                                     !.c = c, !.rcu = TRUE]]
         IN  IF conn[c].setsockopt
               THEN /\ loc' = BeginFind(l, p, conn[c].name)
                    /\ pc' = [pc EXCEPT ![p] = "rd_find"]
               ELSE /\ loc' = l
                    /\ pc' = [pc EXCEPT ![p] = "init_walk"]
      /\ UNCHANGED <<sched_list, sched_list_lock, refcnt, modstate>>
      /\ UNCHANGED connvars

\* One round of list_for_each_entry_rcu in mptcp_sched_find
FindStep(p) ==
    /\ pc[p] = "rd_find"
    /\ \E e \in {sched_list[loc[p].pos]} :
         IF e = ListHead
           THEN /\ loc' = [loc EXCEPT ![p].sched = NoOps]
                /\ pc' = [pc EXCEPT ![p] = "rd_found"]
           ELSE IF SchedOps[e].name = loc[p].name
             THEN /\ loc' = [loc EXCEPT ![p].sched = e, ![p].pos = e]
                  /\ pc' = [pc EXCEPT ![p] = "rd_found"]
             ELSE /\ loc' = [loc EXCEPT ![p].pos = e]
                  /\ UNCHANGED pc
    /\ UNCHANGED <<sched_list, sched_list_lock, refcnt, modstate, conn, ncalls>>
    /\ UNCHANGED connvars

\* __mptcp_sched_find_autoload leaves the read-side critical section for
\* request_module
FindAutoload(p) ==
    /\ pc[p] = "rd_found"
    /\ loc[p].sched = NoOps /\ ~loc[p].retried
    /\ loc' = [rcu_read_unlock(loc, p) EXCEPT ![p].retried = TRUE,
                                              ![p].pos = ListHead]
    /\ pc' = [pc EXCEPT ![p] = "rd_request"]
    /\ UNCHANGED <<sched_list, sched_list_lock, refcnt, modstate, conn, ncalls>>
    /\ UNCHANGED connvars

\* request_module returns, rcu_read_lock, mptcp_sched_find again
FindAgain(p) ==
    /\ pc[p] = "rd_request"
    /\ loc' = BeginFind(loc, p, loc[p].name)
    /\ pc' = [pc EXCEPT ![p] = "rd_find"]
    /\ UNCHANGED <<sched_list, sched_list_lock, refcnt, modstate, conn, ncalls>>
    /\ UNCHANGED connvars

\* mptcp_sched_find of __mptcp_sched_find_autoload is over: the scheduler
\* was found, or the module was requested before, or the caller is not
\* capable
FindOver(p) ==
    /\ pc[p] = "rd_found"

\* The rest of mptcp_set_scheduler
SetSchedulerReturn(p) ==
    /\ FindOver(p) /\ loc[p].op = "set_scheduler"
    /\ \E ns_capable \in BOOLEAN :
         LET err == IF loc[p].sched = NoOps THEN "ENOENT"
                    ELSE IF ~ns_capable THEN "EPERM" ELSE "OK"
         IN  /\ conn' = [conn EXCEPT ![loc[p].c] =
                           IF err = "OK"
                             THEN [@ EXCEPT !.name = loc[p].name,
                                            !.setsockopt = TRUE,
                                            !.state = "closed"]
                             ELSE [@ EXCEPT !.state = "closed"]]
             /\ loc' = [rcu_read_unlock(loc, p) EXCEPT
                          ![p].ret = err, ![p].pos = ListHead,
                          ![p].kept = {}, ![p].seen = {}]
    /\ pc' = [pc EXCEPT ![p] = "ret"]
    /\ UNCHANGED <<sched_list, sched_list_lock, refcnt, modstate, ncalls>>
    /\ UNCHANGED connvars

\* mptcp_init_scheduler without the goto out
InitSetsockoptNoGoto(p) ==
    /\ FindOver(p) /\ loc[p].op = "init_scheduler"
    /\ IF loc[p].sched # NoOps /\ try_module_get(loc[p].sched)
         THEN /\ refcnt' = [refcnt EXCEPT ![loc[p].sched] = @ + 1]
              /\ conn' = [conn EXCEPT ![loc[p].c].sched_ops = loc[p].sched]
         ELSE UNCHANGED <<refcnt, conn>>
    /\ loc' = [loc EXCEPT ![p].pos = ListHead]
    /\ pc' = [pc EXCEPT ![p] = "init_walk"]
    /\ UNCHANGED <<sched_list, sched_list_lock, modstate, ncalls>>
    /\ UNCHANGED connvars

\* mptcp_init_scheduler for a scheduler set by socket option
InitSetsockopt(p) ==
    /\ FindOver(p) /\ loc[p].op = "init_scheduler"
    /\ IF loc[p].sched # NoOps /\ try_module_get(loc[p].sched)
         THEN /\ refcnt' = [refcnt EXCEPT ![loc[p].sched] = @ + 1]
              /\ conn' = [conn EXCEPT ![loc[p].c].sched_ops = loc[p].sched,
                                      ![loc[p].c].state = "bound"]
              /\ loc' = [rcu_read_unlock(loc, p) EXCEPT
                           ![p].ret = "OK", ![p].pos = ListHead,
                           ![p].kept = {}, ![p].seen = {}]
              /\ pc' = [pc EXCEPT ![p] = "ret"]
         ELSE /\ loc' = [loc EXCEPT ![p].pos = ListHead, ![p].kept = {},
                                    ![p].seen = {}]
              /\ pc' = [pc EXCEPT ![p] = "init_walk"]
              /\ UNCHANGED <<refcnt, conn>>
    /\ UNCHANGED <<sched_list, sched_list_lock, modstate, ncalls>>
    /\ UNCHANGED connvars

\* One round of the list walk of mptcp_init_scheduler
InitWalk(p) ==
    /\ pc[p] = "init_walk"
    /\ \E e \in {sched_list[loc[p].pos]} :
         IF e = ListHead
           THEN /\ conn' = [conn EXCEPT ![loc[p].c].state = "bound"]
                /\ loc' = [rcu_read_unlock(loc, p) EXCEPT ![p].ret = "OK",
                                                          ![p].pos = ListHead]
                /\ pc' = [pc EXCEPT ![p] = "ret"]
                /\ UNCHANGED refcnt
           ELSE IF try_module_get(e)
             THEN /\ refcnt' = [refcnt EXCEPT ![e] = @ + 1]
                  /\ conn' = [conn EXCEPT ![loc[p].c].sched_ops = e,
                                          ![loc[p].c].state = "bound"]
                  /\ loc' = [rcu_read_unlock(loc, p) EXCEPT
                               ![p].ret = "OK", ![p].sched = e,
                               ![p].pos = ListHead]
                  /\ pc' = [pc EXCEPT ![p] = "ret"]
             ELSE /\ loc' = [loc EXCEPT ![p].pos = e]
                  /\ UNCHANGED <<pc, refcnt, conn>>
    /\ UNCHANGED <<sched_list, sched_list_lock, modstate, ncalls>>
    /\ UNCHANGED connvars

\* mptcp_cleanup_scheduler when the meta connection is closed
CleanupScheduler(p, C) ==
    \E c \in C :
      /\ Begin(p)
      /\ conn[c].state = "bound"
      /\ IF conn[c].sched_ops = NoOps
           THEN /\ loc' = [loc EXCEPT ![p] = [IdleLoc EXCEPT
                                                !.op = "cleanup_scheduler",
                                                !.c = c, !.ret = "OOPS"]]
                /\ UNCHANGED refcnt
           ELSE /\ loc' = [loc EXCEPT ![p] = [IdleLoc EXCEPT
                                                !.op = "cleanup_scheduler",
                                                !.c = c,
                                                !.sched = conn[c].sched_ops,
                                                !.ret = "OK"]]
                /\ refcnt' = [refcnt EXCEPT ![conn[c].sched_ops] = @ - 1]
      /\ conn' = [conn EXCEPT ![c] = NoConn]
      /\ pc' = [pc EXCEPT ![p] = "ret"]
      /\ UNCHANGED <<sched_list, sched_list_lock, modstate>>

      /\ UNCHANGED connvars

\* The connection side at rest
ConnIdle ==
    /\ subs = BaseSubs(1)
    /\ mpcb = [rcv_shutdown |-> FALSE, dfin_path_index |-> 0,
               infinite_mapping_snd |-> FALSE, send_infinite_mapping |-> FALSE]
    /\ queues = [q \in QueueNames |-> NoSkb]
    /\ now = 0
    /\ nenv = 0
    /\ res = NoRes

\* Lists the registry holds after boot: mptcp_sched_default, then the
\* schedulers of the modules loaded so far
RegLists == {<<1>>, <<1, 2>>, <<1, 2, 3>>}

InitRegistry ==
    /\ ConnIdle
    /\ \E l \in RegLists :
         /\ sched_list = Linked(l)
         /\ modstate = [e \in Ops |->
                          IF \E i \in DOMAIN l : l[i] = e THEN "live"
                          ELSE "gone"]
    /\ sched_list_lock = NoProc
    /\ pc = [p \in Procs |-> "idle"]
    /\ loc = [p \in Procs |-> IdleLoc]
    /\ refcnt = [e \in Ops |-> 0]
    /\ conn = [c \in Conns |-> NoConn]
    /\ ncalls = 0

\* Callers that register and unregister schedulers and set the default
NextReg ==
    \E p \in Procs :
       \/ Register(p, Ops) \/ RegLock(p) \/ RegFind(p) \/ RegAdd(p)
       \/ Unregister(p, Ops) \/ UnregDel(p) \/ UnregSync(p) \/ UnregReturn(p)
       \/ GetDefault(p)
       \/ SetDefault(p, Names) \/ SdFind(p) \/ SdRequest(p) \/ SdDel(p)
       \/ SdAdd(p)

SpecReg == InitRegistry /\ [][NextReg]_vars

\* Callers that look schedulers up while others register and unregister
\* them and set the default
NextRcu ==
    \E p \in Procs :
       \/ SetScheduler(p, {1}, {"roundrobin", "redundant"}) \/ FindStep(p)
       \/ FindAutoload(p) \/ FindAgain(p) \/ SetSchedulerReturn(p)
       \/ Register(p, {2}) \/ RegLock(p) \/ RegFind(p) \/ RegAdd(p)
       \/ Unregister(p, Ops) \/ UnregDel(p) \/ UnregSync(p) \/ UnregReturn(p)
       \/ SetDefault(p, {"roundrobin", "redundant"}) \/ SdFind(p)
       \/ SdRequest(p) \/ SdDel(p) \/ SdAdd(p)

SpecRcu == InitRegistry /\ [][NextRcu]_vars

\* Meta connections as they can be met: closed, with or without a scheduler
\* set by socket option, or initialised with the scheduler of a module
ConnsOver(l) ==
    [Conns -> {NoConn,
               [NoConn EXCEPT !.name = "roundrobin", !.setsockopt = TRUE],
               [NoConn EXCEPT !.sched_ops = 2, !.state = "bound"]}]

InitBind ==
    /\ ConnIdle
    /\ \E l \in {<<1, 2>>, <<2, 1>>} :
         /\ sched_list = Linked(l)
         /\ modstate = [e \in Ops |->
                          IF \E i \in DOMAIN l : l[i] = e THEN "live"
                          ELSE "gone"]
         /\ \E cs \in ConnsOver(l) :
              /\ conn = cs
              /\ refcnt = [e \in Ops |->
                             Cardinality({c \in Conns : cs[c].sched_ops = e})]
    /\ sched_list_lock = NoProc
    /\ pc = [p \in Procs |-> "idle"]
    /\ loc = [p \in Procs |-> IdleLoc]
    /\ ncalls = 0

\* Callers that initialise and close meta connections while others register
\* and unregister schedulers and set the default
NextBind ==
    \E p \in Procs :
       \/ InitScheduler(p, Conns) \/ FindStep(p) \/ FindAutoload(p)
       \/ FindAgain(p) \/ InitSetsockopt(p) \/ InitWalk(p)
       \/ CleanupScheduler(p, Conns)
       \/ Register(p, {2}) \/ RegLock(p) \/ RegFind(p) \/ RegAdd(p)
       \/ Unregister(p, {2}) \/ UnregDel(p) \/ UnregSync(p) \/ UnregReturn(p)
       \/ SetDefault(p, {"roundrobin"}) \/ SdFind(p) \/ SdRequest(p)
       \/ SdDel(p) \/ SdAdd(p)

SpecBind == InitBind /\ [][NextBind]_vars

----------------------------------------------------------------------------
(* Properties of the selector *)

Subflows == 1..Len(subs)

Returned == res.sk # NoSk

\* Subflow i has already carried the segment the call was made for
Used(i) == mptcp_dont_reinject_skb(subs[i], res.arg)

Avail(i) == mptcp_is_available(subs[i], res.arg, res.zero_wnd_test)

\* The meta is shut down for receiving and the call is for a data-fin
ClosingDataFin == mpcb.rcv_shutdown /\ res.arg.present /\ res.arg.data_fin

\* The call could take the data-fin shortcut
DfinHit ==
    /\ ClosingDataFin
    /\ \E i \in Subflows : subs[i].path_index = mpcb.dfin_path_index /\ Avail(i)

\* C1: get_available_subflow never returns a subflow for which
\* mptcp_is_def_unavailable holds, on any return path.
C1_NeverDefUnavailable ==
    (res.op = "get_subflow" /\ Returned)
        => ~mptcp_is_def_unavailable(subs[res.sk])

\* C1 witness: a second pass returned a subflow although a faster subflow
\* of the connection is definitively unavailable.
C1_Witness ==
    /\ res.op = "get_subflow" /\ Returned /\ res.nactive = 2
    /\ \E i \in Subflows : /\ mptcp_is_def_unavailable(subs[i])
                           /\ subs[i].srtt_us < subs[res.sk].srtt_us

\* C2 as stated: a subflow that already carried K is not returned when some
\* subflow that did not carry K is available for K.
C2_UsedNotReturned ==
    (res.op = "get_subflow" /\ Returned /\ Used(res.sk))
        => ~\E j \in Subflows : ~Used(j) /\ Avail(j)

\* C2 amended: the same, for calls that cannot take the data-fin shortcut
\* (the meta is not shut down for receiving, K is no data-fin, or the
\* subflow on dfin_path_index is not available for K).
C2_UsedNotReturnedUnlessDfin ==
    (res.op = "get_subflow" /\ Returned /\ Used(res.sk) /\ ~DfinHit)
        => ~\E j \in Subflows : ~Used(j) /\ Avail(j)

\* C2 witness: without the shortcut, an unused subflow was returned while a
\* faster subflow that already carried K is available too.
C2_Witness ==
    /\ res.op = "get_subflow" /\ Returned /\ ~DfinHit /\ ~Used(res.sk)
    /\ \E j \in Subflows : /\ Used(j) /\ Avail(j)
                           /\ subs[j].srtt_us < subs[res.sk].srtt_us

SameClass(i, j) == subflow_is_backup(subs[i]) <=> subflow_is_backup(subs[j])

C4_AtMostOneRestart ==
    res.op = "get_subflow" => (res.nactive <= 2 /\ res.nbackup <= 2)

\* C4 witness: a call that restarted and ran both picks twice.
C4_Witness ==
    res.op = "get_subflow" /\ res.nactive = 2 /\ res.nbackup = 2

\* C5: with the meta shut down for receiving and K a data-fin, the subflow
\* on dfin_path_index is returned whenever it is available for K; otherwise
\* the active / backup selection runs.
C5_DataFinSamePath ==
    (res.op = "get_subflow" /\ ClosingDataFin)
        => IF DfinHit
             THEN /\ Returned
                  /\ subs[res.sk].path_index = mpcb.dfin_path_index
                  /\ res.nactive = 0
             ELSE res.nactive >= 1

\* C5 witness: the data-fin went to the subflow on dfin_path_index although
\* that subflow already carried it and a faster unused subflow is available.
C5_Witness ==
    /\ res.op = "get_subflow" /\ DfinHit /\ Returned /\ Used(res.sk)
    /\ \E j \in Subflows : /\ ~Used(j) /\ Avail(j)
                           /\ subs[j].srtt_us < subs[res.sk].srtt_us

----------------------------------------------------------------------------
(* Properties of mptcp_next_segment *)

SegmentReturned == res.op = "next_segment" /\ res.src # "none"

\* C6: a returned segment's reinject tag is 1 exactly for the head of the
\* reinject queue, -1 exactly for the head of the retransmit queue handed
\* back by the receive-buffer optimisation, 0 exactly for the write head.
C6_ReinjectTagMatchesSource ==
    SegmentReturned =>
        /\ res.reinject \in {-1, 0, 1}
        /\ res.reinject = 1 <=> res.src = "reinject"
        /\ res.reinject = -1 <=> (res.src = "rtx" /\ "rcv_buf_opt" \in res.info)
        /\ res.reinject = 0 <=> res.src = "write"

\* C6 witness: with both queues empty and the meta send buffer limited, the
\* head of the retransmit queue is returned with tag -1.
C6_Witness ==
    /\ SegmentReturned /\ res.src = "rtx" /\ res.reinject = -1
    /\ "get_subflow" \in res.info
    /\ ~res.preq["reinject"].present /\ ~res.preq["write"].present

\* C7: a returned segment has limit 0 exactly when it fits in one mss of the
\* subflow it is returned on.
C7_LimitZeroIffFits ==
    SegmentReturned =>
        (res.limit = 0 <=> res.arg.len <= subs[res.sk].mss_now)

\* C8: in fallback mode the write head is returned with tag 0, and no subflow
\* is selected, no window is tested, no limit is computed and no state is
\* touched.
C8_FallbackNoSubflowWork ==
    (res.op = "next_segment" /\ Fallback(mpcb)) =>
        /\ res.src = IF res.preq["write"].present THEN "write" ELSE "none"
        /\ res.reinject = 0
        /\ res.sk = NoSk /\ res.limit = 0 /\ res.info = {}
        /\ subs = res.pre /\ queues = res.preq

\* C8 as amended: in fallback mode the reinject queue is not looked at and
\* the send-buffer-limited path is not taken; the write head then goes
\* through the selection of the subflow, the window test and the size
\* computation like any fresh segment, so what is returned is the write head
\* with tag 0 or the head of the retransmit queue with tag -1; with an empty
\* write queue nothing is returned and nothing is touched.
C8_FallbackIgnoresReinject ==
    (res.op = "next_segment" /\ Fallback(mpcb)) =>
        /\ res.src # "reinject" /\ res.reinject # 1
        /\ "get_subflow" \notin res.info
        /\ res.src = "write" => res.reinject = 0
        /\ res.src = "rtx" => (res.reinject = -1 /\ res.preq["write"].present)
        /\ ~res.preq["write"].present =>
              /\ res.src = "none" /\ res.sk = NoSk /\ res.limit = 0
              /\ res.info = {} /\ subs = res.pre /\ queues = res.preq

\* C8 witness: in fallback mode, with a segment waiting in the reinject
\* queue, the write head is returned on a selected subflow.
C8_Witness ==
    /\ res.op = "next_segment" /\ Fallback(mpcb)
    /\ res.preq["reinject"].present
    /\ res.src = "write" /\ res.reinject = 0 /\ res.sk # NoSk
    /\ "get_subflow_skb" \in res.info

----------------------------------------------------------------------------
(* Properties of mptcp_rcv_buf_optimization *)

OptCalled == res.op = "rcv_buf_opt"

\* Would the loop "Half the cwnd of the slow flows" of the call penalise j?
Penalisable(j) ==
    /\ Carrier(res.pre, res.sk, res.arg, j)
    /\ res.pre[res.sk].srtt_us < res.pre[j].srtt_us
    /\ res.pre[j].icsk_ca_state = "Open"

\* C9: a cwnd the call changed is max(old div 2, 1), an ssthresh it changed
\* is max(old div 2, 2), and the ssthresh changes only on a penalised subflow
\* whose cwnd was at least its ssthresh.
C9_HalvingFloors ==
    OptCalled =>
        \A j \in Subflows :
          /\ subs[j].snd_cwnd # res.pre[j].snd_cwnd =>
                /\ subs[j].snd_cwnd = Max(res.pre[j].snd_cwnd \div 2, 1)
                /\ subs[j].snd_cwnd >= 1
          /\ subs[j].snd_ssthresh # res.pre[j].snd_ssthresh =>
                /\ subs[j].snd_ssthresh = Max(res.pre[j].snd_ssthresh \div 2, 2)
                /\ subs[j].snd_ssthresh >= 2
                /\ Penalisable(j)
                /\ res.pre[j].snd_cwnd >= res.pre[j].snd_ssthresh

\* C9 witness: the call halved both the cwnd and the ssthresh of a subflow.
C9_Witness ==
    /\ OptCalled
    /\ \E j \in Subflows : /\ subs[j].snd_cwnd # res.pre[j].snd_cwnd
                           /\ subs[j].snd_ssthresh # res.pre[j].snd_ssthresh

\* Was the call made less than srtt_us / 8 after last_rbuf_opti?
WithinRtt ==
    (res.t - res.pre[res.sk].last_rbuf_opti) * TickUsec
        < res.pre[res.sk].srtt_us \div 8

\* C10: a call never moves last_rbuf_opti back, and a call made less than
\* srtt_us / 8 after last_rbuf_opti changes no last_rbuf_opti, cwnd or
\* ssthresh.
C10_RateLimit ==
    OptCalled =>
        /\ \A j \in Subflows :
              subs[j].last_rbuf_opti >= res.pre[j].last_rbuf_opti
        /\ WithinRtt =>
              \A j \in Subflows :
                /\ subs[j].last_rbuf_opti = res.pre[j].last_rbuf_opti
                /\ subs[j].snd_cwnd = res.pre[j].snd_cwnd
                /\ subs[j].snd_ssthresh = res.pre[j].snd_ssthresh

\* C10 witness: a penalising call that came too early for its slower
\* carrier to be halved again.
C10_Witness ==
    /\ OptCalled /\ res.penal /\ WithinRtt
    /\ res.t > res.pre[res.sk].last_rbuf_opti
    /\ \E j \in Subflows : Penalisable(j) /\ res.pre[j].snd_cwnd > 1

\* The subflows other than the sender that carry the head H at the call
OptCarriers == {j \in Subflows : Carrier(res.pre, res.sk, res.arg, j)}

\* The head H was not sent on the sender S yet and S is available for it
Retransmittable ==
    /\ OptCalled /\ res.arg.present
    /\ res.pre[res.sk].path_index \notin res.arg.path_mask
    /\ mptcp_is_available(res.pre[res.sk], res.arg, FALSE)

\* The sender is not fast enough to help carrier k, whose cwnd is large
Slow(k) ==
    /\ res.pre[k].snd_cwnd > 4
    /\ u32(4 * res.pre[res.sk].srtt_us) >= res.pre[k].srtt_us

\* C15: with H not sent on S yet and S available for H, a carrier with
\* cwnd <= 4 makes the call return H, whatever the list order.
C15_AnySmallCwndRetransmits ==
    (Retransmittable /\ \E j \in OptCarriers : res.pre[j].snd_cwnd <= 4)
        => res.src = "rtx"

\* C15 as amended: the same, when no carrier with a large cwnd that the
\* sender is not fast enough to help comes before that carrier in the list.
C15_FirstSmallCwndRetransmits ==
    (Retransmittable
       /\ \E j \in OptCarriers :
             /\ res.pre[j].snd_cwnd <= 4
             /\ \A k \in OptCarriers : k < j => ~Slow(k))
        => res.src = "rtx"

\* C15 witness: H is returned for a carrier with a small cwnd that comes
\* after a carrier with a large cwnd whose srtt_us is more than four times
\* the sender's.
C15_Witness ==
    /\ Retransmittable /\ res.src = "rtx"
    /\ \E j \in OptCarriers, k \in OptCarriers :
          /\ k < j /\ subs[j].snd_cwnd <= 4 /\ subs[k].snd_cwnd > 4
          /\ u32(4 * subs[res.sk].srtt_us) < subs[k].srtt_us

----------------------------------------------------------------------------
(* Properties of get_available_subflow over active and backup subflows *)

SelCalled == res.op = "get_subflow"

\* The available subflows of a class, and those K did not pass through yet
AvailIn(backup) ==
    {j \in Subflows : Avail(j) /\ (subflow_is_backup(subs[j]) <=> backup)}

FreshIn(backup) == {j \in AvailIn(backup) : ~Used(j)}

\* The call returned a subflow of lowest srtt_us among the set c
LowestOf(c) ==
    /\ Returned /\ res.sk \in c
    /\ \A j \in c : subs[res.sk].srtt_us <= subs[j].srtt_us

\* path_mask(K) is as it was when the call was made
MaskKept == res.q = "none" \/ queues[res.q].path_mask = res.arg.path_mask

\* An active subflow that is only temporarily unavailable
Waiting(j) ==
    /\ subflow_is_active(subs[j]) /\ ~mptcp_is_def_unavailable(subs[j])
    /\ mptcp_is_temp_unavailable(subs[j], res.arg, res.zero_wnd_test)

\* C16: with every active subflow unavailable and a backup subflow available
\* that K did not pass through, the lowest-srtt such backup is returned and
\* path_mask(K) is kept.
C16_BackupWhenActivesUnavailable ==
    (SelCalled /\ AvailIn(FALSE) = {} /\ FreshIn(TRUE) # {})
        => (LowestOf(FreshIn(TRUE)) /\ MaskKept)

\* C16 as amended: the same, when the call does not take the data-fin
\* shortcut and no active subflow that K did not pass through is only
\* temporarily unavailable.
C16_BackupWhenNoActiveWaits ==
    (SelCalled /\ AvailIn(FALSE) = {} /\ FreshIn(TRUE) # {}
       /\ ~DfinHit /\ ~\E j \in Subflows : Waiting(j) /\ ~Used(j))
        => (LowestOf(FreshIn(TRUE)) /\ MaskKept)

\* C16 witness: the faster of two fresh backups is returned while an active
\* subflow that already carried K is busy.
C16_Witness ==
    /\ SelCalled /\ AvailIn(FALSE) = {} /\ ~DfinHit
    /\ \E j \in Subflows : Waiting(j) /\ Used(j)
    /\ \E j \in FreshIn(TRUE) : subs[j].srtt_us > subs[res.sk].srtt_us
    /\ LowestOf(FreshIn(TRUE))

\* The call restarted, that is, it reached "clean the path mask"
Restarted == SelCalled /\ res.nactive = 2

\* The head of the queue changes by its path_mask, and that only to zero
OnlyCleared ==
    res.q # "none" =>
        queues[res.q] \in {res.arg, [res.arg EXCEPT !.path_mask = {}]}

\* C17: the call changes path_mask(K) only to zero and only when K passed
\* through every available subflow; it then returns the lowest-srtt
\* available active subflow, else the lowest-srtt available backup, else
\* nothing.
C17_ClearsWhenExhausted ==
    SelCalled =>
        /\ OnlyCleared
        /\ (~MaskKept \/ Restarted) =>
              /\ FreshIn(FALSE) = {} /\ FreshIn(TRUE) = {}
              /\ IF AvailIn(FALSE) # {} THEN LowestOf(AvailIn(FALSE))
                 ELSE IF AvailIn(TRUE) # {} THEN LowestOf(AvailIn(TRUE))
                 ELSE ~Returned
        /\ (~res.arg.present \/ FreshIn(FALSE) # {} \/ FreshIn(TRUE) # {})
              => (MaskKept /\ ~Restarted)

\* C17 as amended: after the clearing, an active subflow that is only
\* temporarily unavailable makes the call return nothing instead of a
\* backup.
C17_ClearsThenWaitsForActive ==
    SelCalled =>
        /\ OnlyCleared
        /\ (~MaskKept \/ Restarted) =>
              /\ FreshIn(FALSE) = {} /\ FreshIn(TRUE) = {}
              /\ IF AvailIn(FALSE) # {} THEN LowestOf(AvailIn(FALSE))
                 ELSE IF \E j \in Subflows : Waiting(j) THEN ~Returned
                 ELSE IF AvailIn(TRUE) # {} THEN LowestOf(AvailIn(TRUE))
                 ELSE ~Returned
        /\ (~res.arg.present \/ FreshIn(FALSE) # {} \/ FreshIn(TRUE) # {})
              => (MaskKept /\ ~Restarted)

\* C17 witness: path_mask(K) was cleared and the faster of two active
\* subflows that had carried K is returned.
C17_Witness ==
    /\ Restarted /\ ~MaskKept /\ LowestOf(AvailIn(FALSE))
    /\ \E j \in AvailIn(FALSE) : subs[j].srtt_us > subs[res.sk].srtt_us

----------------------------------------------------------------------------
(* Properties of the size computation *)

\* The call reached the size computation with a segment longer than one mss
\* and max_segs > 0
Sized ==
    /\ res.op = "next_segment" /\ "limit" \in res.info /\ res.sk # NoSk
    /\ res.quota > 0

\* What the cwnd of the subflow of the call still takes, in bytes
Remaining ==
    (subs[res.sk].snd_cwnd - subs[res.sk].packets_in_flight)
        * subs[res.sk].mss_now
      - u32(subs[res.sk].write_seq - subs[res.sk].snd_nxt)

MaxSegs ==
    Min(res.quota, IF subs[res.sk].sk_gso_max_segs = 0 THEN 1
                   ELSE subs[res.sk].sk_gso_max_segs)

\* C18: at the size computation the space left in the cwnd is positive, the
\* warning is not reached and the limit is at most the length of the
\* segment, mss_now * max_segs and that space.
C18_RemainingPositive ==
    Sized =>
        /\ Remaining > 0
        /\ "warn" \notin res.info
        /\ res.src # "none"
        /\ res.limit <= res.arg.len
        /\ res.limit <= subs[res.sk].mss_now * MaxSegs
        /\ res.limit <= Remaining

\* C18 witness: the head of the retransmit queue, longer than one mss, is
\* returned with the space left in the cwnd as its limit.
C18_Witness ==
    /\ Sized /\ res.src = "rtx" /\ res.limit = Remaining
    /\ res.limit < res.arg.len

----------------------------------------------------------------------------
(* Properties of the meta-level retransmission *)

\* The call returned the head of the retransmit queue on a subflow
Retransmitted ==
    /\ res.op = "next_segment" /\ res.src = "rtx" /\ res.reinject = -1
    /\ res.sk # NoSk

\* The subflow returned has not carried the segment returned
NotYetCarried == subs[res.sk].path_index \notin res.arg.path_mask

\* The optimiser was entered from the send-buffer-limited branch
FromSndbufLimited == ~res.preq["write"].present

\* C19: the subflow returned with tag -1 has not carried the segment and is
\* the one the optimiser decided for, from both branches.
C19_CarrierIsOptimised ==
    Retransmitted => NotYetCarried /\ res.sk = res.optsk

\* Outside the data-fin shortcut of the second selection of the
\* send-buffer-limited branch, the subflow returned with tag -1 has not
\* carried the segment and is the one the optimiser decided for.
C19_CarrierIsOptimisedUnlessDfin ==
    (Retransmitted /\ ~(FromSndbufLimited /\ ClosingDataFin))
        => NotYetCarried /\ res.sk = res.optsk

\* The send-buffer-limited branch returns the head of the
\* retransmit queue, one subflow having carried it and more than one other
\* subflow being available for it.
C19_SndbufLimitedCase ==
    /\ Retransmitted /\ FromSndbufLimited /\ ~ClosingDataFin
    /\ res.arg.path_mask # {}
    /\ Cardinality({i \in Subflows : ~Used(i) /\ Avail(i)}) > 1

----------------------------------------------------------------------------
(* Properties of the scheduler registry *)

NamesOf(l) == {SchedOps[l[i]].name : i \in 1..Len(l)}

\* Caller p has returned from a call of op
CallReturned(p, op) == pc[p] = "ret" /\ loc[p].op = op

Lacking(e) == ~SchedOps[e].get_subflow \/ ~SchedOps[e].next_segment

\* C11: the list never holds two entries of the same name; a register of
\* an entry that lacks get_subflow or next_segment returns EINVAL, one of a
\* name on the list returns EEXIST, both leave the list as it is, and any
\* other register appends the entry at the tail.
C11_RegisterKeepsNamesUnique ==
    /\ \A i, j \in 1..Len(Entries(sched_list)) :
         i # j => SchedOps[Entries(sched_list)[i]].name
                    # SchedOps[Entries(sched_list)[j]].name
    /\ \A p \in Procs :
         CallReturned(p, "register") =>
           IF Lacking(loc[p].e)
             THEN loc[p].ret = "EINVAL"
             ELSE IF SchedOps[loc[p].e].name \in NamesOf(loc[p].pre)
               THEN loc[p].ret = "EEXIST" /\ loc[p].post = loc[p].pre
               ELSE loc[p].ret = "OK"
                    /\ loc[p].post = Append(loc[p].pre, loc[p].e)

\* C11 witness: two callers have registered two schedulers of the same
\* name at the same time; one was appended, the other was refused.
C11_Witness ==
    \E p, q \in Procs :
      /\ CallReturned(p, "register") /\ CallReturned(q, "register")
      /\ loc[p].e # loc[q].e
      /\ loc[p].ret = "OK" /\ loc[q].ret = "EEXIST"
      /\ loc[q].pre = loc[p].post

\* The list l with entry e taken out
Without(l, e) == SelectSeq(l, LAMBDA x : x # e)

\* C12: set_default of a name on the list returns success and moves the
\* entry to the head, the other entries keeping their order, and a
\* get_default that follows returns the name; set_default of a name that is
\* not on the list, after the retry, returns ENOENT and leaves the list.
C12_SetDefaultMovesToHead ==
    \A p \in Procs :
      CallReturned(p, "set_default") =>
        /\ IF loc[p].name \in NamesOf(loc[p].pre)
             THEN /\ loc[p].ret = "OK"
                  /\ SchedOps[loc[p].post[1]].name = loc[p].name
                  /\ loc[p].post = <<loc[p].post[1]>>
                                     \o Without(loc[p].pre, loc[p].post[1])
             ELSE /\ loc[p].ret = "ENOENT"
                  /\ loc[p].post = loc[p].pre
        /\ \A q \in Procs :
             (/\ CallReturned(q, "get_default")
              /\ loc[p].ret = "OK"
              /\ loc[q].pre = loc[p].post) => loc[q].ret = loc[p].name

\* C12 witness: the third entry of the list was made the default and
\* get_default has returned its name.
C12_Witness ==
    \E p, q \in Procs :
      /\ CallReturned(p, "set_default") /\ loc[p].ret = "OK"
      /\ Len(loc[p].pre) = 3 /\ loc[p].pre[3] = loc[p].post[1]
      /\ CallReturned(q, "get_default") /\ loc[q].pre = loc[p].post
      /\ loc[q].ret = loc[p].name

\* Caller q, in a read-side critical section, holds entry e
Holds(q, e) == loc[q].rcu /\ (loc[q].pos = e \/ loc[q].sched = e)

\* C13: unregister takes the entry off the list and does not return while
\* a read-side critical section that was entered before the removal goes
\* on; once it has returned no caller in a read-side critical section
\* holds the entry, and a lookup returns the entry only if it was
\* registered at some time during the lookup.
C13_UnregisterWaitsForReaders ==
    /\ \A p \in Procs :
         CallReturned(p, "unregister") =>
           /\ loc[p].active = {}
           /\ \A i \in 1..Len(Entries(sched_list)) :
                Entries(sched_list)[i] = loc[p].e => modstate[loc[p].e] # "gone"
    /\ \A e \in Ops : modstate[e] = "gone" => \A q \in Procs : ~Holds(q, e)
    /\ \A q \in Procs :
         (pc[q] = "rd_found" /\ loc[q].sched # NoOps)
            => loc[q].sched \in loc[q].seen

\* C13 witness: unregister has returned after a caller that stood on the
\* entry in a read-side critical section at the removal has left it.
C13_Witness ==
    \E p \in Procs :
      /\ CallReturned(p, "unregister") /\ loc[p].nguards > 0
      /\ \E q \in Procs : loc[q].op = "set_scheduler" /\ loc[q].sched = loc[p].e

\* C20: a lookup of a name whose entry is registered during the whole
\* lookup returns that entry, whatever register, unregister and set_default
\* do at the same time.
C20_LookupFindsRegistered ==
    \A p \in Procs :
      pc[p] = "rd_found" =>
        \A e \in loc[p].kept :
          SchedOps[e].name = loc[p].name => loc[p].sched = e

\* The meta connections initialised with scheduler e
BoundTo(e) == {c \in Conns : conn[c].state = "bound" /\ conn[c].sched_ops = e}

====
